---- MODULE Spec2Model ----
(***************************************************************************)
(* Model of github.com/husafan/audio, package wav (src/wav/wav.go): the    *)
(* WavWriter over a random-access sink.  One process holds the package     *)
(* variables defaultRiffHeader and defaultDataChunk; every WavWriter built *)
(* by NewWavWriter stores these two POINTERS in its Wav struct, and its    *)
(* own FmtChunk and sink.                                                  *)
(***************************************************************************)
EXTENDS Integers, Sequences, FiniteSets, TLC

(* ---------------------------- bounds ---------------------------------- *)
\* Payload room, in default-format frames, of the largest sink.
MaxFrames == 1
\* Sample bytes that follow the 44-byte header of the longest stream read.
MaxData == 8

(* ------------------------- program constants -------------------------- *)
RiffSizeOffset == 4
DataSizeOffset == 40
DataOffset == 44
\* "RIFF", "WAVE", "fmt ", "data" as the uint32 values of the source.
RiffId == 1380533830
WaveFormat == 1463899717
FmtId == 1718449184
DataId == 1684108385
\* Capacity of the sink of TestWavWriterErrorNotEnoughBuffer.
SmallCap == 10

\* The process builds at most two writers: the first and the second.
Writers == { 1, 2 }
U16 == 65536

(* ------------------------ encoding/binary ----------------------------- *)
\* binary.Write(buffer, binary.LittleEndian, uint16)
LE16(n) == << n % 256, (n \div 256) % 256 >>
\* binary.Write(buffer, binary.LittleEndian, uint32)
LE32(n) == << n % 256, (n \div 256) % 256, (n \div 65536) % 256,
              (n \div 16777216) % 256 >>
\* binary.Write(buffer, binary.BigEndian, uint32)
BE32(n) == << (n \div 16777216) % 256, (n \div 65536) % 256,
              (n \div 256) % 256, n % 256 >>
\* binary.Read(..., binary.LittleEndian, &uint32) over four bytes
ReadLE32(b) == b[1] + 256 * b[2] + 65536 * b[3] + 16777216 * b[4]
\* the bytes data[off : off+n] of a Go slice (offsets from 0)
Slice(data, off, n) == [i \in 1..n |-> data[off + i]]

\* ASCII codes of the four tags, as the tests compare them.
TagRIFF == << 82, 73, 70, 70 >>
TagWAVE == << 87, 65, 86, 69 >>
TagFmt == << 102, 109, 116, 32 >>
TagData == << 100, 97, 116, 97 >>

(* ----------------------------- errors --------------------------------- *)
NoErr == [kind |-> "nil", a |-> 0, b |-> 0]
\* fmt.Errorf(ChannelError, w.Fmt.NumChannels, samples)
ChannelErr(expected, found) ==
    [kind |-> "ChannelError", a |-> expected, b |-> found]
\* fmt.Errorf(SampleError, expectedBytes, counted)
SampleErr(expected, found) ==
    [kind |-> "SampleError", a |-> expected, b |-> found]
\* the error of a failed WriteAt(p, off): identified by offset and length
WriteErr(off, n) == [kind |-> "WriteError", a |-> off, b |-> n]

(* --------------------------- descriptors ------------------------------ *)
NewDefaultFmtChunk ==
    [Id |-> FmtId, Size |-> 16, AudioFormat |-> 1, NumChannels |-> 2,
     SampleRate |-> 44100, ByteRate |-> 176400, BlockAlign |-> 4,
     BitsPerSample |-> 16]
\* A mono 16-bit descriptor a caller may supply.
Mono16Fmt ==
    [Id |-> FmtId, Size |-> 16, AudioFormat |-> 1, NumChannels |-> 1,
     SampleRate |-> 8000, ByteRate |-> 16000, BlockAlign |-> 2,
     BitsPerSample |-> 16]
\* The descriptor of the tests' getValidHeaderAndFmtChunk.
TestFmt ==
    [Id |-> FmtId, Size |-> 789, AudioFormat |-> 111, NumChannels |-> 2,
     SampleRate |-> 44000, ByteRate |-> 56000, BlockAlign |-> 12,
     BitsPerSample |-> 16]
\* A descriptor with the largest uint16 values and with uint32 values whose
\* four bytes all differ (sizes stay below 2^31).
EdgeFmt ==
    [Id |-> FmtId, Size |-> 2147483647, AudioFormat |-> 65535,
     NumChannels |-> 65535, SampleRate |-> 16909060, ByteRate |-> 67305985,
     BlockAlign |-> 258, BitsPerSample |-> 65535]
\* A descriptor whose frame has (32768/8) * 16 = 65536 bytes, the smallest
\* count that does not fit the uint16 the code computes it in.
WrapFmt ==
    [Id |-> FmtId, Size |-> 16, AudioFormat |-> 1, NumChannels |-> 16,
     SampleRate |-> 8000, ByteRate |-> 524288000, BlockAlign |-> 0,
     BitsPerSample |-> 32768]
\* The fmt argument of NewWavWriter: nil or a descriptor.
FmtArgs == { "nil", "mono16", "test" }
\* `if fmt == nil { fmt = NewDefaultFmtChunk() }`
FmtOfArg(arg) ==
    CASE arg = "nil" -> NewDefaultFmtChunk
      [] arg = "mono16" -> Mono16Fmt
      [] arg = "test" -> TestFmt
      [] arg = "edge" -> EdgeFmt
      [] arg = "wrap" -> WrapFmt

(* ----------------------------- samples -------------------------------- *)
\* Frames offered to AddSample: Sample is [][]byte.
SampleA == << <<1, 2>>, <<2, 3>> >>
SampleB == << <<4, 5>>, <<6, 7>> >>
SampleShort == << <<1>>, <<2>> >>
SampleMono == << <<9>> >>
SampleMonoWide == << <<8, 7>> >>
Samples == { SampleA, SampleB, SampleShort, SampleMono, SampleMonoWide }
\* Two groups of 1 and 3 bytes; sixteen empty groups; sixteen groups of one
\* byte each.
SampleUneven == << <<1>>, <<2, 3, 4>> >>
SampleEmpty16 == [i \in 1..16 |-> <<>>]
SampleOnes16 == [i \in 1..16 |-> <<i>>]

(* ------------------------------ sinks --------------------------------- *)
\* make([]byte, cap)
NewSink(cap) == [i \in 1..cap |-> 0]
BigCap == DataOffset + 4 * MaxFrames
Caps == { SmallCap, DataOffset - 1, DataOffset, BigCap }

VARIABLES
    defaultRiffHeader,  \* package variable: [Id, Size, Format]
    defaultDataChunk,   \* package variable: [Id, Size, Samples]
    writer,             \* slot -> [live, Fmt]
    sink,               \* slot -> the bytes of the slot's sink
    lastOp,             \* the last call: arguments, writes issued, result
    audit,              \* slot -> observations of the calls made on it
    reader,             \* slot -> what NewWavReader returned: reader, error
    stream,             \* buffer -> the bytes of its source and its position
    calls,              \* slot -> the results of the GetSample calls made
    midi                \* package midi: a byte reader, a Midi receiver

vars ==
    << defaultRiffHeader, defaultDataChunk, writer, sink, lastOp, audit,
       reader, stream, calls, midi >>
\* The state of the writers / of the readers.
wvars == << defaultRiffHeader, defaultDataChunk, writer, sink, lastOp, audit >>
rvars == << reader, stream, calls >>

(* ---------------------- mockWriterAtCloser.WriteAt -------------------- *)
\* One positioned write of p at offset off on the sink bytes data.  The sink
\* checks bounds as the tests' mock does; `inject` is an I/O error of the
\* io.WriterAt itself.  Either all of p lands or none of it.
WriteAt(data, p, off, inject) ==
    IF inject \/ off + Len(p) > Len(data)
    THEN [data |-> data, n |-> 0, err |-> WriteErr(off, Len(p))]
    ELSE [data |-> [i \in 1..Len(data) |->
                      IF i > off /\ i <= off + Len(p) THEN p[i - off]
                      ELSE data[i]],
          n |-> Len(p), err |-> NoErr]

\* What the write log keeps of one WriteAt call.
LogEntry(p, off, r) == [off |-> off, p |-> p, ok |-> r.err = NoErr]

\* Bytes the writes of a log have put at offsets from DataOffset on.
RECURSIVE PayloadWritten(_)
PayloadWritten(log) ==
    IF log = <<>> THEN 0
    ELSE (IF Head(log).ok /\ Head(log).off >= DataOffset
          THEN Len(Head(log).p) ELSE 0) + PayloadWritten(Tail(log))

(* ----------------------- WavWriter.writeInitialData ------------------- *)
\* Mutant: the two rates are written in the other order.
FmtPayload_RatesSwapped(f) ==
    LE16(f.AudioFormat) \o LE16(f.NumChannels) \o LE32(f.ByteRate)
      \o LE32(f.SampleRate) \o LE16(f.BlockAlign) \o LE16(f.BitsPerSample)

\* binary.Write(buffer, binary.LittleEndian, w.Fmt.fmtChunk)
FmtPayload(f) ==
    LE16(f.AudioFormat) \o LE16(f.NumChannels) \o LE32(f.SampleRate)
      \o LE32(f.ByteRate) \o LE16(f.BlockAlign) \o LE16(f.BitsPerSample)

\* Mutant: the data size is written before the data tag.
InitialWrites_DataSizeFirst(riff, f, dat) ==
    << [p |-> BE32(riff.Id), off |-> 0],
       [p |-> LE32(riff.Size), off |-> 4],
       [p |-> BE32(riff.Format), off |-> 8],
       [p |-> BE32(f.Id), off |-> 12],
       [p |-> LE32(f.Size), off |-> 16],
       [p |-> FmtPayload(f), off |-> 20],
       [p |-> LE32(dat.Size), off |-> 40],
       [p |-> BE32(dat.Id), off |-> 36] >>

\* The eight (buffer, offset) pairs of writeInitialData, in program order.
InitialWrites(riff, f, dat) ==
    << [p |-> BE32(riff.Id), off |-> 0],
       [p |-> LE32(riff.Size), off |-> 4],
       [p |-> BE32(riff.Format), off |-> 8],
       [p |-> BE32(f.Id), off |-> 12],
       [p |-> LE32(f.Size), off |-> 16],
       [p |-> FmtPayload(f), off |-> 20],
       [p |-> BE32(dat.Id), off |-> 36],
       [p |-> LE32(dat.Size), off |-> 40] >>

\* `if _, err = w.buffer.WriteAt(...); err != nil { return err }`, repeated:
\* write ws[i], ws[i+1], ... and stop at the first error.
RECURSIVE WriteEach(_, _, _, _, _)
WriteEach(data, ws, i, failAt, log) ==
    IF i > Len(ws)
    THEN [data |-> data, err |-> NoErr, log |-> log]
    ELSE LET r == WriteAt(data, ws[i].p, ws[i].off, failAt = i)
             log2 == Append(log, LogEntry(ws[i].p, ws[i].off, r))
         IN  IF r.err # NoErr
             THEN [data |-> r.data, err |-> r.err, log |-> log2]
             ELSE WriteEach(r.data, ws, i + 1, failAt, log2)

\* Mutant: the error of the last write (the data size) is not checked.
writeInitialData_LastUnchecked(riff, f, dat, data, failAt) ==
    LET r == WriteEach(data, InitialWrites(riff, f, dat), 1, failAt, <<>>)
    IN  IF Len(r.log) = 8 THEN [r EXCEPT !.err = NoErr] ELSE r

writeInitialData(riff, f, dat, data, failAt) ==
    WriteEach(data, InitialWrites(riff, f, dat), 1, failAt, <<>>)

(* --------------------------- WavWriter.AddSample ---------------------- *)
\* Mutant: `samples > int(w.Fmt.NumChannels)` in place of `!=`.
ChannelCountOk_AtMost(f, sample) == Len(sample) <= f.NumChannels

\* `samples := len(sample); samples != int(w.Fmt.NumChannels)` negated
ChannelCountOk(f, sample) == Len(sample) = f.NumChannels

\* `(w.Fmt.BitsPerSample / 8) * w.Fmt.NumChannels` in uint16 arithmetic
ExpectedBytes(f) == ((f.BitsPerSample \div 8) * f.NumChannels) % U16

\* `for index := range sample { counted += len(sample[index]) }`
RECURSIVE Counted(_)
Counted(sample) ==
    IF sample = <<>> THEN 0 ELSE Len(Head(sample)) + Counted(Tail(sample))

\* the buffer filled by the two nested loops: sample[i][j] in order
RECURSIVE SampleBytes(_)
SampleBytes(sample) ==
    IF sample = <<>> THEN <<>>
    ELSE Head(sample) \o SampleBytes(Tail(sample))

\* Mutant: the byte count is checked before the channel count.
Validate_BytesFirst(f, sample) ==
    IF Counted(sample) # ExpectedBytes(f)
    THEN SampleErr(ExpectedBytes(f), Counted(sample))
    ELSE IF ~ChannelCountOk(f, sample)
         THEN ChannelErr(f.NumChannels, Len(sample))
         ELSE NoErr

\* The two validations, in program order; NoErr when the frame passes.
Validate(f, sample) ==
    IF ~ChannelCountOk(f, sample)
    THEN ChannelErr(f.NumChannels, Len(sample))
    ELSE IF Counted(sample) # ExpectedBytes(f)
         THEN SampleErr(ExpectedBytes(f), Counted(sample))
         ELSE NoErr

\* `w.Riff.Size += uint32(counted)`, `w.Data.Size += uint32(counted)`.  The
\* sizes of this model stay far below 2^32 (a sink holds a few frames), where
\* uint32 addition is exact.
AddU32(size, counted) == size + counted

\* Mutant: every frame is written at the start of the data area.
SampleOffset_Fixed(dat) == DataOffset

\* `offset := DataOffset + int64(w.Data.Size)`
SampleOffset(dat) == DataOffset + dat.Size

\* Mutant: the error of the payload write is not checked.
AddSampleBody_PayloadUnchecked(riff, f, dat, data, sample, failAt) ==
    LET v == Validate(f, sample)
    IN
    IF v # NoErr
    THEN [riff |-> riff, dat |-> dat, data |-> data, log |-> <<>>, err |-> v]
    ELSE
    LET counted == Counted(sample)
        buffer == SampleBytes(sample)
        offset == SampleOffset(dat)
        r1 == WriteAt(data, buffer, offset, failAt = 1)
        l1 == << LogEntry(buffer, offset, r1) >>
        dat2 == [dat EXCEPT !.Samples = Append(@, sample),
                            !.Size = AddU32(@, counted)]
        riff2 == [riff EXCEPT !.Size = AddU32(@, counted)]
        b2 == LE32(riff2.Size)
        r2 == WriteAt(r1.data, b2, RiffSizeOffset, failAt = 2)
        l2 == Append(l1, LogEntry(b2, RiffSizeOffset, r2))
    IN
    IF r2.err # NoErr
    THEN [riff |-> riff2, dat |-> dat2, data |-> r2.data, log |-> l2,
          err |-> r2.err]
    ELSE
    LET b3 == LE32(dat2.Size)
        r3 == WriteAt(r2.data, b3, DataSizeOffset, failAt = 3)
        l3 == Append(l2, LogEntry(b3, DataSizeOffset, r3))
    IN  [riff |-> riff2, dat |-> dat2, data |-> r3.data, log |-> l3,
         err |-> r3.err]

\* Mutant: the two size fields are patched before the payload is written.
AddSampleBody_SizesFirst(riff, f, dat, data, sample, failAt) ==
    LET v == Validate(f, sample)
    IN
    IF v # NoErr
    THEN [riff |-> riff, dat |-> dat, data |-> data, log |-> <<>>, err |-> v]
    ELSE
    LET counted == Counted(sample)
        buffer == SampleBytes(sample)
        offset == SampleOffset(dat)
        dat2 == [dat EXCEPT !.Size = AddU32(@, counted)]
        riff2 == [riff EXCEPT !.Size = AddU32(@, counted)]
        b1 == LE32(riff2.Size)
        r1 == WriteAt(data, b1, RiffSizeOffset, failAt = 1)
        l1 == << LogEntry(b1, RiffSizeOffset, r1) >>
    IN
    IF r1.err # NoErr
    THEN [riff |-> riff, dat |-> dat, data |-> r1.data, log |-> l1,
          err |-> r1.err]
    ELSE
    LET b2 == LE32(dat2.Size)
        r2 == WriteAt(r1.data, b2, DataSizeOffset, failAt = 2)
        l2 == Append(l1, LogEntry(b2, DataSizeOffset, r2))
    IN
    IF r2.err # NoErr
    THEN [riff |-> riff, dat |-> dat, data |-> r2.data, log |-> l2,
          err |-> r2.err]
    ELSE
    LET r3 == WriteAt(r2.data, buffer, offset, failAt = 3)
        l3 == Append(l2, LogEntry(buffer, offset, r3))
    IN  IF r3.err # NoErr
        THEN [riff |-> riff, dat |-> dat, data |-> r3.data, log |-> l3,
              err |-> r3.err]
        ELSE [riff |-> riff2,
              dat |-> [dat2 EXCEPT !.Samples = Append(@, sample)],
              data |-> r3.data, log |-> l3, err |-> NoErr]

\* The body of AddSample on a writer whose Riff, Fmt, Data and sink are
\* riff, f, dat, data.  Result: the new Riff, Data and sink, the writes
\* issued and the error returned.
AddSampleBody(riff, f, dat, data, sample, failAt) ==
    LET v == Validate(f, sample)
    IN
    IF v # NoErr
    THEN [riff |-> riff, dat |-> dat, data |-> data, log |-> <<>>, err |-> v]
    ELSE
    LET counted == Counted(sample)
        buffer == SampleBytes(sample)
        offset == SampleOffset(dat)
        r1 == WriteAt(data, buffer, offset, failAt = 1)
        l1 == << LogEntry(buffer, offset, r1) >>
    IN
    IF r1.err # NoErr
    THEN [riff |-> riff, dat |-> dat, data |-> r1.data, log |-> l1,
          err |-> r1.err]
    ELSE
    LET dat2 == [dat EXCEPT !.Samples = Append(@, sample),
                            !.Size = AddU32(@, counted)]
        riff2 == [riff EXCEPT !.Size = AddU32(@, counted)]
        b2 == LE32(riff2.Size)
        r2 == WriteAt(r1.data, b2, RiffSizeOffset, failAt = 2)
        l2 == Append(l1, LogEntry(b2, RiffSizeOffset, r2))
    IN
    IF r2.err # NoErr
    THEN [riff |-> riff2, dat |-> dat2, data |-> r2.data, log |-> l2,
          err |-> r2.err]
    ELSE
    LET b3 == LE32(dat2.Size)
        r3 == WriteAt(r2.data, b3, DataSizeOffset, failAt = 3)
        l3 == Append(l2, LogEntry(b3, DataSizeOffset, r3))
    IN  [riff |-> riff2, dat |-> dat2, data |-> r3.data, log |-> l3,
         err |-> r3.err]

(* ------------------------------ reader -------------------------------- *)
\* Errors NewWavReader and GetSample return: the kind, for a tag error the
\* four bytes read (the %s argument), for a wrapped error the inner message.
NilErr == [kind |-> "nil", text |-> <<>>, inner |-> ""]
\* io.EOF and io.ErrUnexpectedEOF
EOF == [kind |-> "EOF", text |-> <<>>, inner |-> ""]
ErrUnexpectedEOF == [kind |-> "ErrUnexpectedEOF", text |-> <<>>, inner |-> ""]
\* err.Error() of the two stream errors
Message(err) == IF err = EOF THEN "EOF" ELSE "unexpected EOF"
\* fmt.Errorf("error reading format: %v", err.Error())
FormatReadErr(err) ==
    [kind |-> "FormatReadError", text |-> <<>>, inner |-> Message(err)]
\* fmt.Errorf(RiffError, s), fmt.Errorf(WaveError, s), ...
RiffErr(s) == [kind |-> "RiffError", text |-> s, inner |-> ""]
WaveErr(s) == [kind |-> "WaveError", text |-> s, inner |-> ""]
FmtErr(s) == [kind |-> "FmtError", text |-> s, inner |-> ""]
DataErr(s) == [kind |-> "DataError", text |-> s, inner |-> ""]

\* binary.Read of a uint32 / uint16 from the bytes read
ReadBE32(b) == 16777216 * b[1] + 65536 * b[2] + 256 * b[3] + b[4]
ReadLE16(b) == b[1] + 256 * b[2]

\* Mutant: the bytes are taken little-endian.
uint32AsString_LittleEndian(number) == LE32(number)

\* uint32AsString: the four bytes of the number, big-endian, as a string
uint32AsString(number) == BE32(number)

\* io.ReadFull, as binary.Read calls it, of n bytes from position pos of the
\* stream src: io.EOF when no byte is left, io.ErrUnexpectedEOF when some
\* but fewer than n are; the bytes that were there are consumed.
ReadFull(src, pos, n) ==
    LET avail == Len(src) - pos
        got == IF avail < n THEN avail ELSE n
    IN  [p |-> Slice(src, pos, got), pos |-> pos + got,
         err |-> IF got = n THEN NilErr
                 ELSE IF got = 0 THEN EOF ELSE ErrUnexpectedEOF]

NoSubChunk == [Id |-> 0, Size |-> 0]

\* Mutant: a missing Size is read as zero.
readSubChunk_SizeOptional(src, pos) ==
    LET r1 == ReadFull(src, pos, 4)
    IN  IF r1.err # NilErr
        THEN [chunk |-> NoSubChunk, pos |-> r1.pos, err |-> r1.err]
        ELSE LET r2 == ReadFull(src, r1.pos, 4)
             IN  IF r2.err # NilErr
                 THEN [chunk |-> [Id |-> ReadBE32(r1.p), Size |-> 0],
                       pos |-> r2.pos, err |-> NilErr]
                 ELSE [chunk |-> [Id |-> ReadBE32(r1.p),
                                  Size |-> ReadLE32(r2.p)],
                       pos |-> r2.pos, err |-> NilErr]

\* readSubChunk: the big-endian Id, then the little-endian Size.
readSubChunk(src, pos) ==
    LET r1 == ReadFull(src, pos, 4)
    IN  IF r1.err # NilErr
        THEN [chunk |-> NoSubChunk, pos |-> r1.pos, err |-> r1.err]
        ELSE LET r2 == ReadFull(src, r1.pos, 4)
             IN  IF r2.err # NilErr
                 THEN [chunk |-> NoSubChunk, pos |-> r2.pos, err |-> r2.err]
                 ELSE [chunk |-> [Id |-> ReadBE32(r1.p),
                                  Size |-> ReadLE32(r2.p)],
                       pos |-> r2.pos, err |-> NilErr]

NoRiff == [Id |-> 0, Size |-> 0, Format |-> 0]

\* readRiffHeader: sub-chunk, "RIFF" check, Format, "WAVE" check.
readRiffHeader(src, pos) ==
    LET c == readSubChunk(src, pos)
    IN
    IF c.err # NilErr
    THEN [riff |-> NoRiff, pos |-> c.pos, err |-> c.err]
    ELSE IF uint32AsString(c.chunk.Id) # TagRIFF
    THEN [riff |-> NoRiff, pos |-> c.pos,
          err |-> RiffErr(uint32AsString(c.chunk.Id))]
    ELSE
    LET r == ReadFull(src, c.pos, 4)
    IN
    IF r.err # NilErr
    THEN [riff |-> NoRiff, pos |-> r.pos, err |-> FormatReadErr(r.err)]
    ELSE IF uint32AsString(ReadBE32(r.p)) # TagWAVE
    THEN [riff |-> NoRiff, pos |-> r.pos,
          err |-> WaveErr(uint32AsString(ReadBE32(r.p)))]
    ELSE [riff |-> [Id |-> c.chunk.Id, Size |-> c.chunk.Size,
                    Format |-> ReadBE32(r.p)],
          pos |-> r.pos, err |-> NilErr]

NoFmt ==
    [Id |-> 0, Size |-> 0, AudioFormat |-> 0, NumChannels |-> 0,
     SampleRate |-> 0, ByteRate |-> 0, BlockAlign |-> 0, BitsPerSample |-> 0]

\* binary.Read(*reader, binary.LittleEndian, newFmtChunk) over 16 bytes
DecodeFmt(chunk, b) ==
    [Id |-> chunk.Id, Size |-> chunk.Size,
     AudioFormat |-> ReadLE16(Slice(b, 0, 2)),
     NumChannels |-> ReadLE16(Slice(b, 2, 2)),
     SampleRate |-> ReadLE32(Slice(b, 4, 4)),
     ByteRate |-> ReadLE32(Slice(b, 8, 4)),
     BlockAlign |-> ReadLE16(Slice(b, 12, 2)),
     BitsPerSample |-> ReadLE16(Slice(b, 14, 2))]

\* Mutant: the payload read is as long as the header declares.
readFormatChunk_DeclaredLength(src, pos) ==
    LET c == readSubChunk(src, pos)
    IN
    IF c.err # NilErr
    THEN [fmt |-> NoFmt, pos |-> c.pos, err |-> c.err]
    ELSE IF uint32AsString(c.chunk.Id) # TagFmt
    THEN [fmt |-> NoFmt, pos |-> c.pos,
          err |-> FmtErr(uint32AsString(c.chunk.Id))]
    ELSE
    LET r == ReadFull(src, c.pos, c.chunk.Size)
    IN  IF r.err # NilErr
        THEN [fmt |-> NoFmt, pos |-> r.pos, err |-> r.err]
        ELSE [fmt |-> DecodeFmt(c.chunk, r.p), pos |-> r.pos, err |-> NilErr]

\* readFormatChunk: sub-chunk, "fmt " check, the 16-byte payload in one read.
readFormatChunk(src, pos) ==
    LET c == readSubChunk(src, pos)
    IN
    IF c.err # NilErr
    THEN [fmt |-> NoFmt, pos |-> c.pos, err |-> c.err]
    ELSE IF uint32AsString(c.chunk.Id) # TagFmt
    THEN [fmt |-> NoFmt, pos |-> c.pos,
          err |-> FmtErr(uint32AsString(c.chunk.Id))]
    ELSE
    LET r == ReadFull(src, c.pos, 16)
    IN  IF r.err # NilErr
        THEN [fmt |-> NoFmt, pos |-> r.pos, err |-> r.err]
        ELSE [fmt |-> DecodeFmt(c.chunk, r.p), pos |-> r.pos, err |-> NilErr]

NoData == [Id |-> 0, Size |-> 0, Samples |-> <<>>]

\* readDataChunk: sub-chunk, "data" check; no sample is read yet.
readDataChunk(src, pos) ==
    LET c == readSubChunk(src, pos)
    IN
    IF c.err # NilErr
    THEN [dat |-> NoData, pos |-> c.pos, err |-> c.err]
    ELSE IF uint32AsString(c.chunk.Id) # TagData
    THEN [dat |-> NoData, pos |-> c.pos,
          err |-> DataErr(uint32AsString(c.chunk.Id))]
    ELSE [dat |-> [Id |-> c.chunk.Id, Size |-> c.chunk.Size,
                   Samples |-> <<>>],
          pos |-> c.pos, err |-> NilErr]

\* What NewWavReader returns: the reader (live, with its three chunks and
\* the position of its buffer in the stream) or no reader, and the error.
NoReaderResult(pos, err) ==
    [live |-> FALSE, Riff |-> NoRiff, Fmt |-> NoFmt, Data |-> NoData,
     pos |-> pos, err |-> err]

\* Mutant: the error of readDataChunk is not checked.
NewWavReaderBody_DataUnchecked(src) ==
    LET r1 == readRiffHeader(src, 0)
    IN
    IF r1.err # NilErr THEN NoReaderResult(r1.pos, r1.err)
    ELSE
    LET r2 == readFormatChunk(src, r1.pos)
    IN
    IF r2.err # NilErr THEN NoReaderResult(r2.pos, r2.err)
    ELSE
    LET r3 == readDataChunk(src, r2.pos)
    IN  [live |-> TRUE, Riff |-> r1.riff, Fmt |-> r2.fmt, Data |-> r3.dat,
         pos |-> r3.pos, err |-> NilErr]

\* The body of NewWavReader over the stream src, read from its start: the
\* three stages in stream order, the first error ends the call.  (The
\* bufio.Reader in between changes no result: the stream is not shared.)
NewWavReaderBody(src) ==
    LET r1 == readRiffHeader(src, 0)
    IN
    IF r1.err # NilErr THEN NoReaderResult(r1.pos, r1.err)
    ELSE
    LET r2 == readFormatChunk(src, r1.pos)
    IN
    IF r2.err # NilErr THEN NoReaderResult(r2.pos, r2.err)
    ELSE
    LET r3 == readDataChunk(src, r2.pos)
    IN
    IF r3.err # NilErr THEN NoReaderResult(r3.pos, r3.err)
    ELSE [live |-> TRUE, Riff |-> r1.riff, Fmt |-> r2.fmt, Data |-> r3.dat,
          pos |-> r3.pos, err |-> NilErr]

(* --------------------- legacy NewWavReader (src/wav.go) --------------- *)
\* Mutant: every short read is reported as a short read of the FourCC.
ReadErr_AlwaysFourCC(step, err) ==
    [kind |-> "ErrorReadingFourCC", text |-> <<>>, inner |-> Message(err)]

\* errors.New(fmt.Sprintf("Error reading FourCC: %v", err.Error())) and its
\* like for Size and Format; FormatChunkError wraps the cause the same way.
ReadErr(step, err) ==
    [kind |-> "ErrorReading" \o step, text |-> <<>>, inner |-> Message(err)]
FormatChunkErr(err) ==
    [kind |-> "FormatChunkError", text |-> <<>>, inner |-> Message(err)]

\* w.readFormatChunk of the legacy reader: a sub-chunk header, whose Id is
\* not checked, and the 16-byte payload.
legacyReadFormatChunk(src, pos) ==
    LET c == readSubChunk(src, pos)
    IN  IF c.err # NilErr
        THEN [fmt |-> NoFmt, pos |-> c.pos, err |-> c.err]
        ELSE LET r == ReadFull(src, c.pos, 16)
             IN  IF r.err # NilErr
                 THEN [fmt |-> NoFmt, pos |-> r.pos, err |-> r.err]
                 ELSE [fmt |-> DecodeFmt(c.chunk, r.p), pos |-> r.pos,
                       err |-> NilErr]

\* The body of the legacy NewWavReader: FourCC, Size, Format, fmt chunk.
LegacyNewWavReaderBody(src) ==
    LET r1 == ReadFull(src, 0, 4)
    IN
    IF r1.err # NilErr THEN NoReaderResult(r1.pos, ReadErr("FourCC", r1.err))
    ELSE IF r1.p # TagRIFF THEN NoReaderResult(r1.pos, RiffErr(r1.p))
    ELSE
    LET r2 == ReadFull(src, r1.pos, 4)
    IN
    IF r2.err # NilErr THEN NoReaderResult(r2.pos, ReadErr("Size", r2.err))
    ELSE
    LET r3 == ReadFull(src, r2.pos, 4)
    IN
    IF r3.err # NilErr THEN NoReaderResult(r3.pos, ReadErr("Format", r3.err))
    ELSE IF r3.p # TagWAVE THEN NoReaderResult(r3.pos, WaveErr(r3.p))
    ELSE
    LET r4 == legacyReadFormatChunk(src, r3.pos)
    IN  IF r4.err # NilErr
        THEN NoReaderResult(r4.pos, FormatChunkErr(r4.err))
        ELSE [live |-> TRUE,
              Riff |-> [Id |-> ReadBE32(r1.p), Size |-> ReadLE32(r2.p),
                        Format |-> ReadBE32(r3.p)],
              Fmt |-> r4.fmt, Data |-> NoData, pos |-> r4.pos,
              err |-> NilErr]

(* -------------------------- WavReader.GetSample ----------------------- *)
\* Mutant: a started byte counts as a whole one.
BytesPerSample_RoundUp(f) == (f.BitsPerSample + 7) \div 8

\* `bytesPerSample := int(w.Fmt.BitsPerSample) / 8`
BytesPerSample(f) == f.BitsPerSample \div 8

\* `for j := 0; j < bytesPerSample; j++ { binary.Read(..., &channelSample[j]) }`:
\* one byte per read, the first error ends the loop.
RECURSIVE ReadBytes(_, _, _, _, _)
ReadBytes(src, pos, j, bytesPerSample, channelSample) ==
    IF j >= bytesPerSample
    THEN [p |-> channelSample, pos |-> pos, err |-> NilErr]
    ELSE LET r == ReadFull(src, pos, 1)
         IN  IF r.err # NilErr
             THEN [p |-> channelSample, pos |-> r.pos, err |-> r.err]
             ELSE ReadBytes(src, r.pos, j + 1, bytesPerSample,
                            Append(channelSample, r.p[1]))

\* Mutant: the bytes of a channel are read in one binary.Read of the slice.
ReadChannel_OneRead(src, pos, bytesPerSample) ==
    IF bytesPerSample = 0
    THEN [p |-> <<>>, pos |-> pos, err |-> NilErr]
    ELSE ReadFull(src, pos, bytesPerSample)

\* The inner loop of GetSample for one channel.
ReadChannel(src, pos, bytesPerSample) ==
    ReadBytes(src, pos, 0, bytesPerSample, <<>>)

\* `for i := 0; i < int(w.Fmt.NumChannels); i++ { ... }`
RECURSIVE ReadChannels(_, _, _, _, _, _)
ReadChannels(src, pos, i, numChannels, bytesPerSample, channels) ==
    IF i >= numChannels
    THEN [channels |-> channels, pos |-> pos, err |-> NilErr]
    ELSE LET r == ReadChannel(src, pos, bytesPerSample)
         IN  IF r.err # NilErr
             THEN [channels |-> Append(channels, r.p), pos |-> r.pos,
                   err |-> r.err]
             ELSE ReadChannels(src, r.pos, i + 1, numChannels,
                               bytesPerSample, Append(channels, r.p))

\* Mutant: a call that fails lists an empty frame.
GetSampleBody_ListsFailedCall(f, src, pos, samples) ==
    LET r == ReadChannels(src, pos, 0, f.NumChannels, BytesPerSample(f), <<>>)
    IN  IF r.err # NilErr
        THEN [some |-> FALSE, sample |-> <<>>, pos |-> r.pos,
              samples |-> Append(samples, <<>>), err |-> r.err]
        ELSE [some |-> TRUE, sample |-> r.channels, pos |-> r.pos,
              samples |-> Append(samples, r.channels), err |-> NilErr]

\* Mutant: the groups read so far are appended when a read fails.
GetSampleBody_AppendsPartial(f, src, pos, samples) ==
    LET r == ReadChannels(src, pos, 0, f.NumChannels, BytesPerSample(f), <<>>)
    IN  IF r.err # NilErr
        THEN [some |-> FALSE, sample |-> <<>>, pos |-> r.pos,
              samples |-> Append(samples, r.channels), err |-> r.err]
        ELSE [some |-> TRUE, sample |-> r.channels, pos |-> r.pos,
              samples |-> Append(samples, r.channels), err |-> NilErr]

\* The body of GetSample on a reader with descriptor f, whose buffer stands
\* at position pos of the stream src and whose frame list is samples.
\* Result: the frame (or none), the error, the new position and list.
GetSampleBody(f, src, pos, samples) ==
    LET r == ReadChannels(src, pos, 0, f.NumChannels, BytesPerSample(f), <<>>)
    IN  IF r.err # NilErr
        THEN [some |-> FALSE, sample |-> <<>>, pos |-> r.pos,
              samples |-> samples, err |-> r.err]
        ELSE [some |-> TRUE, sample |-> r.channels, pos |-> r.pos,
              samples |-> Append(samples, r.channels), err |-> NilErr]

(* ----------------------------- package midi --------------------------- *)
msbMask == 128
sevenBitMask == 127
\* The `i < 8` of ReadVariableLengthQuantity's loop.
VlqMaxBytes == 8
\* The header length unmarshalHeaderChunk expects.
HeaderLength == 16

\* `*b&msbMask != msbMask`
isLastByte(b) == (b \div msbMask) % 2 # 1

\* `current&sevenBitMask`
LowSeven(b) == b % (sevenBitMask + 1)

\* A uint64 below 2^56 is kept as its base-128 digits, most significant
\* first, without leading zeros (0 is the empty sequence).
\* `value<<7 + uint64(d)` for a 7-bit d:
ShiftAdd(value, d) == IF value = <<>> /\ d = 0 THEN <<>> ELSE Append(value, d)

\* reader.ReadByte() at position pos of the bytes src: the byte and nil, or
\* an error at the end.
ReadByte(src, pos) ==
    IF pos < Len(src)
    THEN [b |-> src[pos + 1], pos |-> pos + 1, ok |-> TRUE]
    ELSE [b |-> 0, pos |-> pos, ok |-> FALSE]

\* The loop of ReadVariableLengthQuantity from its i-th iteration on, with
\* `current` read already and ok standing for err == nil.
RECURSIVE VlqLoop(_, _, _, _, _, _)
VlqLoop(src, pos, i, value, current, ok) ==
    IF i < VlqMaxBytes /\ ok
    THEN LET v2 == ShiftAdd(value, LowSeven(current))
         IN  IF isLastByte(current)
             THEN [value |-> v2, pos |-> pos]
             ELSE LET rb == ReadByte(src, pos)
                  IN  VlqLoop(src, rb.pos, i + 1, v2, rb.b, rb.ok)
    ELSE [value |-> value, pos |-> pos]

\* ReadVariableLengthQuantity(reader): the value and the reader's position.
ReadVariableLengthQuantityBody(src, pos) ==
    LET rb == ReadByte(src, pos)
    IN  VlqLoop(src, rb.pos, 0, <<>>, rb.b, rb.ok)

\* fmt.Errorf(HeaderSizeError, chunk.Length)
HeaderSizeErr(length) ==
    [kind |-> "HeaderSizeError", text |-> << length >>, inner |-> ""]

\* binary.Read(..., binary.BigEndian, &uint16) over two bytes
ReadBE16(b) == 256 * b[1] + b[2]

\* A Midi whose HeaderChunk is nil.
NoHeaderChunk ==
    [set |-> FALSE, Type |-> <<>>, Length |-> 0, Format |-> 0, Ntrks |-> 0,
     Division |-> 0]

\* Mutant: the header is stored before the three words are read.
unmarshalHeaderChunk_StoresEarly(hc, data) ==
    LET r1 == ReadFull(data, 0, 8)
    IN
    IF r1.err # NilErr THEN [hc |-> hc, err |-> r1.err]
    ELSE IF ReadBE32(Slice(r1.p, 4, 4)) # HeaderLength
    THEN [hc |-> hc, err |-> HeaderSizeErr(ReadBE32(Slice(r1.p, 4, 4)))]
    ELSE
    LET early == [set |-> TRUE, Type |-> Slice(r1.p, 0, 4),
                  Length |-> ReadBE32(Slice(r1.p, 4, 4)), Format |-> 0,
                  Ntrks |-> 0, Division |-> 0]
        r2 == ReadFull(data, r1.pos, 2)
        r3 == ReadFull(data, r2.pos, 2)
        r4 == ReadFull(data, r3.pos, 2)
    IN
    IF r2.err # NilErr THEN [hc |-> early, err |-> r2.err]
    ELSE IF r3.err # NilErr THEN [hc |-> early, err |-> r3.err]
    ELSE IF r4.err # NilErr THEN [hc |-> early, err |-> r4.err]
    ELSE [hc |-> [early EXCEPT !.Format = ReadBE16(r2.p),
                               !.Ntrks = ReadBE16(r3.p),
                               !.Division = ReadBE16(r4.p)],
          err |-> NilErr]

\* m.unmarshalHeaderChunk(bytes.NewBuffer(data)) on a receiver whose
\* HeaderChunk is hc: the chunk (Type and big-endian Length) in one read,
\* the length check, the three big-endian words.
unmarshalHeaderChunk(hc, data) ==
    LET r1 == ReadFull(data, 0, 8)
    IN
    IF r1.err # NilErr THEN [hc |-> hc, err |-> r1.err]
    ELSE IF ReadBE32(Slice(r1.p, 4, 4)) # HeaderLength
    THEN [hc |-> hc, err |-> HeaderSizeErr(ReadBE32(Slice(r1.p, 4, 4)))]
    ELSE
    LET r2 == ReadFull(data, r1.pos, 2)
        r3 == ReadFull(data, r2.pos, 2)
        r4 == ReadFull(data, r3.pos, 2)
    IN
    IF r2.err # NilErr THEN [hc |-> hc, err |-> r2.err]
    ELSE IF r3.err # NilErr THEN [hc |-> hc, err |-> r3.err]
    ELSE IF r4.err # NilErr THEN [hc |-> hc, err |-> r4.err]
    ELSE [hc |-> [set |-> TRUE, Type |-> Slice(r1.p, 0, 4),
                  Length |-> ReadBE32(Slice(r1.p, 4, 4)),
                  Format |-> ReadBE16(r2.p), Ntrks |-> ReadBE16(r3.p),
                  Division |-> ReadBE16(r4.p)],
          err |-> NilErr]

(* --------------------------- reader inputs ---------------------------- *)
\* More descriptors a fmt chunk can hold (its fields are uint16 and uint32).
Mono8Fmt ==
    [Id |-> FmtId, Size |-> 16, AudioFormat |-> 1, NumChannels |-> 1,
     SampleRate |-> 8000, ByteRate |-> 8000, BlockAlign |-> 1,
     BitsPerSample |-> 8]
Stereo12Fmt ==
    [Id |-> FmtId, Size |-> 16, AudioFormat |-> 1, NumChannels |-> 2,
     SampleRate |-> 8000, ByteRate |-> 16000, BlockAlign |-> 2,
     BitsPerSample |-> 12]
ZeroChannelsFmt ==
    [Id |-> FmtId, Size |-> 16, AudioFormat |-> 1, NumChannels |-> 0,
     SampleRate |-> 8000, ByteRate |-> 0, BlockAlign |-> 0,
     BitsPerSample |-> 16]
FourBitFmt ==
    [Id |-> FmtId, Size |-> 16, AudioFormat |-> 1, NumChannels |-> 1,
     SampleRate |-> 8000, ByteRate |-> 4000, BlockAlign |-> 1,
     BitsPerSample |-> 4]
ReaderFmts ==
    { TestFmt, Mono16Fmt, Mono8Fmt, Stereo12Fmt, ZeroChannelsFmt, FourBitFmt }

\* Tags a stream may carry in place of the four expected ones:
\* "RIFD", "riff", "WAVD", "FMT ", "dat0".
TagRIFD == << 82, 73, 70, 68 >>
TagRiffLower == << 114, 105, 102, 102 >>
TagWAVD == << 87, 65, 86, 68 >>
TagFmtUpper == << 70, 77, 84, 32 >>
TagDat0 == << 100, 97, 116, 48 >>
TagSets ==
    [riff : { TagRIFF, TagRIFD, TagRiffLower }, wave : { TagWAVE, TagWAVD },
     fmt : { TagFmt, TagFmtUpper }, data : { TagData, TagDat0 }]
ValidTags ==
    [riff |-> TagRIFF, wave |-> TagWAVE, fmt |-> TagFmt, data |-> TagData]

\* wavSize of the tests, the RIFF size their streams carry.
WavSize == 123

\* getValidHeaderAndFmtChunk followed by the data chunk header of
\* TestValidData (size 0), with the tags t and the descriptor f.
HeaderOf(t, f) ==
    t.riff \o LE32(WavSize) \o t.wave \o t.fmt \o LE32(f.Size)
      \o FmtPayload(f) \o t.data \o LE32(0)

\* The sample bytes of TestValidData: 123, -123, 321, -321 as little-endian
\* int16, and further bytes beyond these eight.
TestData == << 123, 0, 133, 255, 65, 1, 191, 254 >>
DataBytes(n) ==
    [i \in 1..n |-> IF i <= Len(TestData) THEN TestData[i] ELSE (37 * i) % 256]

\* The first n bytes of a stream.
Prefix(bytes, n) == SubSeq(bytes, 1, n)

\* The streams offered to NewWavReader: every prefix of a header with any
\* tags and descriptor, followed by up to MaxData sample bytes.
Sources ==
    { Prefix(HeaderOf(t, f) \o DataBytes(MaxData), n) :
        t \in TagSets, f \in ReaderFmts, n \in 0..(DataOffset + MaxData) }

\* GetSample calls made on one reader.
MaxCalls == MaxData + 1

(* ------------------------------ state --------------------------------- *)
\* w.Riff and w.Data of every writer: the package variables themselves
\* (NewWavWriter stores the pointers, it makes no copy).
Riff(w) == defaultRiffHeader
Data(w) == defaultDataChunk

\* Whether the injected I/O error reached a write the call issued.
Injected(failAt, log) == failAt \in 1..Len(log)

NoWriter == [live |-> FALSE, Fmt |-> NewDefaultFmtChunk]
NoAudit ==
    [okAdds |-> 0, ioFailed |-> FALSE, written |-> 0, added |-> <<>>,
     stored |-> <<>>]
\* The process opens at most two readers.
Readers == { 1, 2 }
\* No call of NewWavReader made yet.
NoReader ==
    [called |-> FALSE, live |-> FALSE, Riff |-> NoRiff, Fmt |-> NoFmt,
     Data |-> NoData, err |-> NilErr]
\* A byte reader over no bytes, no ReadVariableLengthQuantity call made; a
\* new(Midi), no UnmarshalBinary call made.
NoMidi ==
    [src |-> <<>>, pos |-> 0, start |-> 0, value |-> <<>>, reads |-> 0,
     hc |-> NoHeaderChunk, called |-> FALSE, data |-> <<>>, err |-> NilErr]
NoOp ==
    [op |-> "none", w |-> 0, fmtArg |-> "nil", sample |-> <<>>,
     injected |-> FALSE, log |-> <<>>, err |-> NoErr, data |-> <<>>]

Init ==
    /\ defaultRiffHeader = [Id |-> RiffId, Size |-> 36, Format |-> WaveFormat]
    /\ defaultDataChunk = [Id |-> DataId, Size |-> 0, Samples |-> <<>>]
    /\ writer = [w \in Writers |-> NoWriter]
    /\ sink = [w \in Writers |-> <<>>]
    /\ lastOp = NoOp
    /\ audit = [w \in Writers |-> NoAudit]
    /\ reader = [r \in Readers |-> NoReader]
    /\ stream = [b \in Readers |-> [src |-> <<>>, pos |-> 0]]
    /\ calls = [r \in Readers |-> <<>>]
    /\ midi = NoMidi

\* NewWavWriter(output, fmt) over a fresh sink of `cap` bytes.  On success
\* the writer and its sink are kept in slot w; on an error no writer is
\* returned, and the sink the call wrote to is seen in lastOp.data only.
\* Slots are filled in order: slot w names the w-th writer constructed.
NewWavWriter(w, cap, fmtArg, failAt) ==
    /\ ~writer[w].live
    /\ \A v \in Writers : v < w => writer[v].live
    /\ \E f \in { FmtOfArg(fmtArg) } :
       \E r \in { writeInitialData(defaultRiffHeader, f, defaultDataChunk,
                                    NewSink(cap), failAt) } :
           /\ IF r.err = NoErr
              THEN /\ sink' = [sink EXCEPT ![w] = r.data]
                   /\ writer' = [writer EXCEPT
                                   ![w] = [live |-> TRUE, Fmt |-> f]]
              ELSE UNCHANGED << sink, writer >>
           /\ lastOp' = [op |-> "NewWavWriter", w |-> w, fmtArg |-> fmtArg,
                         sample |-> <<>>, injected |-> Injected(failAt, r.log),
                         log |-> r.log, err |-> r.err, data |-> r.data]
    /\ UNCHANGED << defaultRiffHeader, defaultDataChunk, audit >>
    /\ UNCHANGED rvars
    /\ UNCHANGED midi

\* w.AddSample(sample) on the live writer of slot w.
AddSample(w, sample, failAt) ==
    /\ writer[w].live
    /\ \E r \in { AddSampleBody(Riff(w), writer[w].Fmt, Data(w), sink[w],
                                 sample, failAt) } :
           /\ defaultRiffHeader' = r.riff
           /\ defaultDataChunk' = r.dat
           /\ sink' = [sink EXCEPT ![w] = r.data]
           /\ lastOp' = [op |-> "AddSample", w |-> w, fmtArg |-> "nil",
                         sample |-> sample, injected |-> Injected(failAt, r.log),
                         log |-> r.log, err |-> r.err, data |-> r.data]
           /\ audit' = [audit EXCEPT
                 ![w] = [okAdds |-> @.okAdds + (IF r.err = NoErr THEN 1 ELSE 0),
                         ioFailed |-> @.ioFailed \/ r.err.kind = "WriteError",
                         written |-> @.written + PayloadWritten(r.log),
                         added |-> IF r.err = NoErr
                                   THEN Append(@.added, sample) ELSE @.added,
                         stored |-> IF r.log # <<>> /\ r.log[1].ok
                                    THEN Append(@.stored, sample)
                                    ELSE @.stored]]
    /\ UNCHANGED writer
    /\ UNCHANGED rvars
    /\ UNCHANGED midi

\* The calls of NewWavWriter offered: every sink size and descriptor over a
\* sink that fails only when a write is out of bounds, and an I/O error at
\* each of the eight writes over the largest sink.
NewArgs ==
    { [cap |-> c, fmtArg |-> a, failAt |-> 0] : c \in Caps, a \in FmtArgs }
      \cup { [cap |-> BigCap, fmtArg |-> a, failAt |-> i] :
                a \in FmtArgs, i \in 1..8 }

\* The writes of AddSample an I/O error is injected into: none (0), or one
\* of the three writes of a call that passes validation.
AddFailPoints(w, sample) ==
    IF Validate(writer[w].Fmt, sample) = NoErr THEN 0..3 ELSE {0}

Next ==
    \/ \E w \in Writers, n \in NewArgs :
          NewWavWriter(w, n.cap, n.fmtArg, n.failAt)
    \/ \E w \in Writers, sample \in Samples :
          \E failAt \in AddFailPoints(w, sample) :
             AddSample(w, sample, failAt)

Spec == Init /\ [][Next]_vars

\* One writer over a sink with room for a few frames and no I/O errors,
\* offered frames of every shape.
MaxAccepted == 3
FrameCap == DataOffset + 4 * MaxAccepted
FrameFmtArgs == { "nil", "mono16", "wrap" }
FrameSamples ==
    { SampleA, SampleB, SampleUneven, SampleShort, SampleMonoWide,
      SampleEmpty16, SampleOnes16 }
FrameNext ==
    \/ \E a \in FrameFmtArgs : NewWavWriter(1, FrameCap, a, 0)
    \/ \E sample \in FrameSamples :
          /\ Len(Data(1).Samples) < MaxAccepted
          /\ AddSample(1, sample, 0)

FrameSpec == Init /\ [][FrameNext]_vars

(* ----------------------------- midi inputs ---------------------------- *)
\* The inputs of TestVariableLengthQuantity.
VlqTests ==
    { << 127 >>, << 129, 72 >>, << 255, 255, 127 >>, << 129, 128, 128, 0 >>,
      << 192, 128, 128, 0 >> }
\* k bytes c.
Repeat(c, k) == [i \in 1..k |-> c]
\* Bytes offered to ReadVariableLengthQuantity: up to MaxContinuation bytes
\* with the continuation bit set, then a terminating byte or none, then
\* further bytes or none.
MaxContinuation == 9
VlqInputs ==
    VlqTests \cup
      { Repeat(c, k) \o t \o tail :
          k \in 0..MaxContinuation, c \in { 128, 129, 255 },
          t \in { <<>>, << 0 >>, << 127 >> },
          tail \in { <<>>, << 5 >>, << 129, 72 >> } }
\* ReadVariableLengthQuantity calls made on one reader.
MaxVlqReads == 2

\* "MThd" and "MTrk"
TagMThd == << 77, 84, 104, 100 >>
TagMTrk == << 77, 84, 114, 107 >>
\* Bytes offered to UnmarshalBinary: every prefix of a chunk type, a length
\* (16, the 5 of TestMidiHeaderIncorrectSize, 4096), three words and one
\* byte more.
MidiInputs ==
    { Prefix(t \o BE32(length) \o << 0, 1, 0, 2, 1, 224, 77 >>, n) :
        t \in { TagMThd, TagMTrk }, length \in { 16, 5, 4096 }, n \in 0..15 }

(* --------------------------- reader actions --------------------------- *)
\* Mutant: one buffer serves every reader.
ReaderBuffer_Shared(r) == 1

\* `bufferedReader := io.Reader(bufio.NewReader(r))`: the buffer of reader r
\* is made by the call that makes the reader, and is its own.
ReaderBuffer(r) == r

\* NewWavReader(r) over a fresh stream holding the bytes src.
NewWavReader(r, src) ==
    /\ ~reader[r].called
    /\ \E res \in { NewWavReaderBody(src) } :
          /\ reader' = [reader EXCEPT
                ![r] = [called |-> TRUE, live |-> res.live, Riff |-> res.Riff,
                        Fmt |-> res.Fmt, Data |-> res.Data, err |-> res.err]]
          /\ stream' = [stream EXCEPT
                ![ReaderBuffer(r)] = [src |-> src, pos |-> res.pos]]
    /\ UNCHANGED calls
    /\ UNCHANGED wvars
    /\ UNCHANGED midi

\* w.GetSample() on the reader of slot r.
GetSample(r) ==
    /\ reader[r].live
    /\ Len(calls[r]) < MaxCalls
    /\ \E res \in { GetSampleBody(reader[r].Fmt, stream[ReaderBuffer(r)].src,
                                   stream[ReaderBuffer(r)].pos,
                                   reader[r].Data.Samples) } :
          /\ reader' = [reader EXCEPT ![r].Data.Samples = res.samples]
          /\ stream' = [stream EXCEPT ![ReaderBuffer(r)].pos = res.pos]
          /\ calls' = [calls EXCEPT
                ![r] = Append(@, [some |-> res.some, sample |-> res.sample,
                                  err |-> res.err])]
    /\ UNCHANGED wvars
    /\ UNCHANGED midi

\* One reader over any of the streams, read to its end.
ReaderNext ==
    \/ \E src \in Sources : NewWavReader(1, src)
    \/ GetSample(1)

ReaderSpec == Init /\ [][ReaderNext]_vars

\* A caller that keeps calling GetSample while it can.
FairReaderSpec == ReaderSpec /\ WF_vars(GetSample(1))

\* The legacy NewWavReader(r) over a fresh stream holding the bytes src.
LegacyNewWavReader(r, src) ==
    /\ ~reader[r].called
    /\ \E res \in { LegacyNewWavReaderBody(src) } :
          /\ reader' = [reader EXCEPT
                ![r] = [called |-> TRUE, live |-> res.live, Riff |-> res.Riff,
                        Fmt |-> res.Fmt, Data |-> res.Data, err |-> res.err]]
          /\ stream' = [stream EXCEPT
                ![ReaderBuffer(r)] = [src |-> src, pos |-> res.pos]]
    /\ UNCHANGED calls
    /\ UNCHANGED wvars
    /\ UNCHANGED midi

\* One legacy reader over any of the streams.
LegacyNext == \E src \in Sources : LegacyNewWavReader(1, src)

LegacySpec == Init /\ [][LegacyNext]_vars

(* ============================ properties ============================== *)
\* The little-endian size fields of a sink, as the tests read them.
RiffSizeField(data) == ReadLE32(Slice(data, RiffSizeOffset, 4))
DataSizeField(data) == ReadLE32(Slice(data, DataSizeOffset, 4))

\* The bytes of a sequence of frames, frame after frame.
RECURSIVE FramesBytes(_)
FramesBytes(frames) ==
    IF frames = <<>> THEN <<>>
    ELSE SampleBytes(Head(frames)) \o FramesBytes(Tail(frames))

\* Bytes one frame of descriptor f contributes: (bitsPerSample/8)*numChannels.
FrameSize(f) == (f.BitsPerSample \div 8) * f.NumChannels

\* The last step was a call of AddSample / of NewWavWriter.
IsAdd(op) == op.op = "AddSample"
IsNew(op) == op.op = "NewWavWriter"

\* C1: on every writer on which N AddSample calls have succeeded (and none
\* has failed in a write), each contributing k bytes, the sink's RIFF size
\* field reads 36 + N*k and its data size field reads N*k.
C1_SizeFieldsCountTheWritersFrames ==
    \A w \in Writers :
       (writer[w].live /\ ~audit[w].ioFailed) =>
          LET k == FrameSize(writer[w].Fmt)
              n == audit[w].okAdds
          IN  /\ RiffSizeField(sink[w]) = 36 + n * k
              /\ DataSizeField(sink[w]) = n * k

\* C2, first half: a successful AddSample issues the frame's bytes, in the
\* order given, as one write at offset 44 + (data size before the call).
C2_PayloadWrite ==
    (IsAdd(lastOp) /\ lastOp.err = NoErr) =>
       /\ Len(SelectSeq(lastOp.log, LAMBDA e : e.off >= DataOffset)) = 1
       /\ lastOp.log[1].p = SampleBytes(lastOp.sample)
       /\ lastOp.log[1].off
            = DataOffset + (Data(lastOp.w).Size - Counted(lastOp.sample))

\* C2, second half: on a writer all of whose AddSample calls succeeded or
\* were rejected before any write, sink bytes [44, 44 + dataSize) are the
\* bytes of the frames it accepted, in call order.
C2_Concatenation ==
    \A w \in Writers :
       (writer[w].live /\ ~audit[w].ioFailed) =>
          LET n == Data(w).Size
          IN  /\ DataOffset + n <= Len(sink[w])
              /\ Slice(sink[w], DataOffset, n) = FramesBytes(audit[w].added)

\* C2: a successful AddSample writes the frame verbatim in one write at
\* offset 44 + (data size before the call); hence after successful calls on
\* one writer its sink holds the frames' bytes in call order from offset 44.
C2_FramesAreConcatenatedFrom44 == C2_PayloadWrite /\ C2_Concatenation

\* The 44 bytes of an empty container with the default descriptor.
DefaultHeaderBytes ==
    TagRIFF \o LE32(36) \o TagWAVE \o TagFmt \o LE32(16) \o LE16(1)
      \o LE16(2) \o LE32(44100) \o LE32(176400) \o LE16(4) \o LE16(16)
      \o TagData \o LE32(0)

\* C3: every successful NewWavWriter call with no descriptor leaves the
\* sink's first 44 bytes as the empty default container (RIFF size 36, data
\* size 0), whatever other writers did before.
C3_DefaultConstructionWritesEmptyHeader ==
    (IsNew(lastOp) /\ lastOp.err = NoErr /\ lastOp.fmtArg = "nil") =>
       Slice(lastOp.data, 0, DataOffset) = DefaultHeaderBytes

\* C4: an AddSample on writer a leaves the RIFF size counter, the data size
\* counter and the frame list of every other writer b unchanged.
C4_AddSampleLeavesOtherWritersAlone ==
    [][ \A a, b \in Writers :
          (a # b /\ writer[b].live /\ IsAdd(lastOp') /\ lastOp'.w = a) =>
             /\ Riff(b)'.Size = Riff(b).Size
             /\ Data(b)'.Size = Data(b).Size
             /\ Data(b)'.Samples = Data(b).Samples ]_vars

\* A call of AddSample left the sink, both counters and the frame list alone.
AddLeftAllUnchanged ==
    /\ sink' = sink
    /\ defaultRiffHeader' = defaultRiffHeader
    /\ defaultDataChunk' = defaultDataChunk

\* C5: AddSample with a frame whose number of channel groups differs from
\* Fmt.NumChannels returns ChannelError with the expected and the found
\* count, issues no write, and leaves the sink, both size counters and the
\* frame list unchanged.
C5_ChannelMismatchIsRejectedUntouched ==
    [][ (IsAdd(lastOp')
           /\ Len(lastOp'.sample) # writer[lastOp'.w].Fmt.NumChannels) =>
          /\ lastOp'.err = ChannelErr(writer[lastOp'.w].Fmt.NumChannels,
                                      Len(lastOp'.sample))
          /\ lastOp'.log = <<>>
          /\ AddLeftAllUnchanged ]_vars

\* C5 witness: a ChannelError returned by a writer that holds a frame.
C5_Witness ==
    /\ IsAdd(lastOp)
    /\ lastOp.err.kind = "ChannelError"
    /\ lastOp.err.a # lastOp.err.b
    /\ audit[lastOp.w].okAdds > 0

\* C6: the channel count is checked before the byte count: a frame wrong in
\* both yields ChannelError; a frame with the right channel count and a byte
\* count other than (bitsPerSample/8)*numChannels yields SampleError with the
\* expected and found byte counts; either way no write is issued and the
\* counters and the frame list are unchanged.
C6_ChannelCheckPrecedesByteCheck ==
    [][ IsAdd(lastOp') =>
          LET f == writer[lastOp'.w].Fmt
              s == lastOp'.sample
          IN  /\ (Len(s) # f.NumChannels /\ Counted(s) # FrameSize(f)) =>
                    /\ lastOp'.err.kind = "ChannelError"
                    /\ lastOp'.log = <<>>
                    /\ AddLeftAllUnchanged
              /\ (Len(s) = f.NumChannels /\ Counted(s) # FrameSize(f)) =>
                    /\ lastOp'.err = SampleErr(FrameSize(f), Counted(s))
                    /\ lastOp'.log = <<>>
                    /\ AddLeftAllUnchanged ]_vars

\* C6 witness: a frame wrong in both respects was answered by ChannelError.
C6_Witness ==
    /\ IsAdd(lastOp)
    /\ Len(lastOp.sample) # writer[lastOp.w].Fmt.NumChannels
    /\ Counted(lastOp.sample) # FrameSize(writer[lastOp.w].Fmt)
    /\ lastOp.err.kind = "ChannelError"

\* A SampleError is reached as well.
C6_SampleErrorReached == IsAdd(lastOp) /\ lastOp.err.kind = "SampleError"

\* The writes of the last call that failed.
FailedWrites(op) == { i \in 1..Len(op.log) : ~op.log[i].ok }

\* C7: if one of the eight writes of construction fails, NewWavWriter
\* returns no writer and that write's error; over a bounds-checking sink of
\* fewer than 44 bytes it always fails, over one of at least 44 it succeeds.
C7_ConstructionIsAllOrNothing ==
    IsNew(lastOp) =>
       /\ (FailedWrites(lastOp) # {}) =>
             /\ ~writer[lastOp.w].live
             /\ \E i \in FailedWrites(lastOp) :
                   lastOp.err = WriteErr(lastOp.log[i].off,
                                         Len(lastOp.log[i].p))
       /\ (FailedWrites(lastOp) = {}) =>
             /\ lastOp.err = NoErr
             /\ writer[lastOp.w].live
             /\ sink[lastOp.w] = lastOp.data
       /\ Len(lastOp.data) < DataOffset => lastOp.err # NoErr
       /\ (Len(lastOp.data) >= DataOffset /\ ~lastOp.injected) =>
             lastOp.err = NoErr

\* C7 witness: construction over the 10-byte sink failed, no writer exists.
C7_Witness ==
    /\ IsNew(lastOp)
    /\ Len(lastOp.data) = SmallCap
    /\ lastOp.err.kind = "WriteError"
    /\ \A w \in Writers : ~writer[w].live

\* C8: within AddSample the writes at offsets 4 and 40 are issued only after
\* the payload write has succeeded; if the payload write fails, no write to
\* offset 4 or 40 is issued, the counters and the frame list are unchanged
\* and the call returns that error.
C8_SizePatchesFollowPayload ==
    [][ (IsAdd(lastOp') /\ lastOp'.log # <<>>) =>
          LET log == lastOp'.log
              sizeWrites == { i \in 1..Len(log) :
                                log[i].off \in {RiffSizeOffset, DataSizeOffset} }
          IN  /\ (sizeWrites # {}) =>
                    /\ log[1].off = DataOffset + Data(lastOp'.w).Size
                    /\ log[1].p = SampleBytes(lastOp'.sample)
                    /\ log[1].ok
                    /\ \A i \in sizeWrites : i > 1
              /\ (log[1].off >= DataOffset /\ ~log[1].ok) =>
                    /\ sizeWrites = {}
                    /\ Len(log) = 1
                    /\ lastOp'.err = WriteErr(log[1].off, Len(log[1].p))
                    /\ AddLeftAllUnchanged ]_vars

\* C8 witness: a payload write failed on a writer that holds a frame.
C8_Witness ==
    /\ IsAdd(lastOp)
    /\ lastOp.log # <<>>
    /\ ~lastOp.log[1].ok
    /\ lastOp.err.kind = "WriteError"
    /\ audit[lastOp.w].okAdds > 0

\* Only the first writer exists.
SingleWriter == writer[1].live /\ \A w \in Writers \ {1} : ~writer[w].live

\* C9: for a single writer over a sink with atomic writes, under any pattern
\* of write failures, the data size field and (RIFF size field - 36) are
\* each at most the number of payload bytes physically written from 44.
C9_DeclaredSizeNeverExceedsPhysical ==
    SingleWriter =>
       /\ DataSizeField(sink[1]) <= audit[1].written
       /\ RiffSizeField(sink[1]) - 36 <= audit[1].written

\* C9 witness: the window is open: more payload is written than declared.
C9_Witness ==
    /\ SingleWriter
    /\ audit[1].ioFailed
    /\ DataSizeField(sink[1]) < audit[1].written
    /\ RiffSizeField(sink[1]) - 36 < audit[1].written

\* C10: for every writer, Data.Size equals the number of payload bytes that
\* writer has physically written to its own sink from offset 44.
C10_DataSizeIsTheWritersPayload ==
    \A w \in Writers : writer[w].live => Data(w).Size = audit[w].written

\* C11, first half: the RIFF length counter of every writer equals
\* 4 + (8 + fmt chunk length) + (8 + data chunk length).
C11_RiffLengthFormula ==
    \A w \in Writers :
       writer[w].live =>
          Riff(w).Size = 4 + (8 + writer[w].Fmt.Size) + (8 + Data(w).Size)

\* C11, second half: an AddSample changes the RIFF length counter by exactly
\* the amount by which it changes the data chunk length.
C11_Lockstep ==
    IsAdd(lastOp') =>
       Riff(lastOp'.w)'.Size - Riff(lastOp'.w).Size
          = Data(lastOp'.w)'.Size - Data(lastOp'.w).Size

\* C11: in every reachable writer state, for any descriptor supplied at
\* construction, the RIFF length counter equals 4 + (8 + fmt chunk length)
\* + (8 + data chunk length), and each AddSample that changes the data chunk
\* length changes the RIFF length by the same amount.
C11_RiffLengthTracksChunks ==
    [][ C11_RiffLengthFormula' /\ C11_Lockstep ]_vars

\* The second half of C11 alone, over every step.
C11_LockstepAlways == [][ C11_Lockstep ]_vars

(* ---------------------------- midi actions ---------------------------- *)
\* bytes.NewBuffer(src): a byte reader over src.
NewByteReader(src) ==
    /\ midi' = [midi EXCEPT !.src = src, !.pos = 0, !.start = 0,
                            !.value = <<>>, !.reads = 0]
    /\ UNCHANGED wvars
    /\ UNCHANGED rvars

\* ReadVariableLengthQuantity(reader) on the byte reader.
ReadVariableLengthQuantity ==
    /\ midi.reads < MaxVlqReads
    /\ \E res \in { ReadVariableLengthQuantityBody(midi.src, midi.pos) } :
          midi' = [midi EXCEPT !.start = midi.pos, !.pos = res.pos,
                               !.value = res.value, !.reads = @ + 1]
    /\ UNCHANGED wvars
    /\ UNCHANGED rvars

\* midi := new(Midi)
NewMidi ==
    /\ midi.called
    /\ midi' = [midi EXCEPT !.hc = NoHeaderChunk, !.called = FALSE,
                            !.data = <<>>, !.err = NilErr]
    /\ UNCHANGED wvars
    /\ UNCHANGED rvars

\* midi.UnmarshalBinary(data) on the receiver.
UnmarshalBinary(data) ==
    /\ \E res \in { unmarshalHeaderChunk(midi.hc, data) } :
          midi' = [midi EXCEPT !.hc = res.hc, !.called = TRUE,
                               !.data = data, !.err = res.err]
    /\ UNCHANGED wvars
    /\ UNCHANGED rvars

\* A byte reader over any of the inputs, read from more than once.
VlqNext ==
    \/ \E src \in VlqInputs : NewByteReader(src)
    \/ ReadVariableLengthQuantity

VlqSpec == Init /\ [][VlqNext]_vars

\* A Midi unmarshalled from any of the inputs, anew or again.
MidiNext ==
    \/ NewMidi
    \/ \E data \in MidiInputs : UnmarshalBinary(data)

MidiSpec == Init /\ [][MidiNext]_vars

(* ----------------------- writer and reader together ------------------ *)
\* NewWavReader over the bytes writer w has put in its sink so far.
ReadBack(w) ==
    /\ writer[w].live
    /\ NewWavReader(w, sink[w])

\* The descriptors written and read back.
RoundTripArgs == FmtArgs \cup { "edge" }

\* Writers over the largest sink, none of whose writes fails, and a reader
\* over the sink of each.
RoundTripNext ==
    \/ \E w \in Writers, a \in RoundTripArgs : NewWavWriter(w, BigCap, a, 0)
    \/ \E w \in Writers, sample \in Samples : AddSample(w, sample, 0)
    \/ \E w \in Writers : ReadBack(w)

RoundTripSpec == Init /\ [][RoundTripNext]_vars

\* The number of bytes of a list of frames.
RECURSIVE PayloadLen(_)
PayloadLen(frames) ==
    IF frames = <<>> THEN 0
    ELSE Counted(Head(frames)) + PayloadLen(Tail(frames))

\* NewWavReader over the container writer w has produced: the sink's first
\* 44 + (bytes of the frames added through w) bytes.
ReadContainer(w) ==
    /\ writer[w].live
    /\ NewWavReader(w, Prefix(sink[w],
                              DataOffset + PayloadLen(audit[w].added)))

\* No reader has been opened yet.
NoneOpened == \A r \in Readers : ~reader[r].called

\* Writers over a sink with room for MaxAccepted stereo frames, none of
\* whose writes fails, offered well-formed and uneven frames; then a reader
\* over the container of each, called once more than frames were added.
ContainerFmtArgs == { "nil", "mono16", "test" }
ContainerSamples == { SampleA, SampleB, SampleUneven, SampleMonoWide }
ContainerNext ==
    \/ \E w \in Writers, a \in ContainerFmtArgs :
          /\ NoneOpened
          /\ NewWavWriter(w, FrameCap, a, 0)
    \/ \E w \in Writers, sample \in ContainerSamples :
          /\ NoneOpened
          /\ Len(Data(w).Samples) < MaxAccepted
          /\ AddSample(w, sample, 0)
    \/ \E w \in Writers : ReadContainer(w)
    \/ \E r \in Readers :
          /\ Len(calls[r]) <= Len(audit[r].added)
          /\ GetSample(r)

ContainerSpec == Init /\ [][ContainerNext]_vars

\* The streams two readers are opened over: every prefix of a valid header
\* with up to MaxData sample bytes, and one with a wrong data tag.
TwinSources ==
    { Prefix(HeaderOf(t, f) \o DataBytes(MaxData), n) :
        t \in { ValidTags, [ValidTags EXCEPT !.data = TagDat0] },
        f \in { TestFmt, Mono16Fmt, ZeroChannelsFmt },
        n \in 0..(DataOffset + MaxData) }

\* Two readers, the second over a stream of the same bytes as the first,
\* called in any interleaving, while a writer is made and adds frames.
TwinNext ==
    \/ \E src \in TwinSources : NewWavReader(1, src)
    \/ (reader[1].called /\ NewWavReader(2, stream[1].src))
    \/ \E r \in Readers : GetSample(r)
    \/ NewWavWriter(1, BigCap, "nil", 0)
    \/ AddSample(1, SampleA, 0)

TwinSpec == Init /\ [][TwinNext]_vars

(* ------------------------- reader properties -------------------------- *)
\* The bytes NewWavReader(r) was given.
SourceOf(r) == stream[r].src
\* The four tag fields of a stream of at least 44 bytes.
RiffTagOf(src) == Slice(src, 0, 4)
WaveTagOf(src) == Slice(src, 8, 4)
FmtTagOf(src) == Slice(src, 12, 4)
DataTagOf(src) == Slice(src, 36, 4)

\* The three stages of construction, told from the bytes of the stream: the
\* RIFF header with its WAVE field, the fmt chunk, the data chunk header.
RiffStageOk(src) ==
    Len(src) >= 12 /\ RiffTagOf(src) = TagRIFF /\ WaveTagOf(src) = TagWAVE
FmtStageOk(src) == Len(src) >= 36 /\ FmtTagOf(src) = TagFmt
DataStageOk(src) == Len(src) >= DataOffset /\ DataTagOf(src) = TagData

\* The kinds of error whose message reports the end of the stream ("EOF").
EndOfStreamKinds == { "EOF", "ErrUnexpectedEOF", "FormatReadError" }
TagErrorKinds == { "RiffError", "WaveError", "FmtError", "DataError" }

\* C12: NewWavReader is all-or-nothing.  It returns a reader exactly when it
\* returns no error, and only when the RIFF, fmt and data stages all succeed;
\* otherwise it returns no reader and the error of the first stage that
\* fails, in stream order: the stream is read no further than that stage.
C12_ReaderConstructionIsAllOrNothing ==
    \A r \in Readers :
       reader[r].called =>
          LET src == SourceOf(r)
              rd == reader[r]
          IN  /\ rd.live <=> rd.err = NilErr
              /\ ~rd.live =>
                   rd.Riff = NoRiff /\ rd.Fmt = NoFmt /\ rd.Data = NoData
              /\ rd.live <=>
                   RiffStageOk(src) /\ FmtStageOk(src) /\ DataStageOk(src)
              /\ ~RiffStageOk(src) =>
                   /\ rd.err.kind \in { "RiffError", "WaveError" }
                                         \cup EndOfStreamKinds
                   /\ stream[r].pos <= 12
              /\ (RiffStageOk(src) /\ ~FmtStageOk(src)) =>
                   /\ rd.err.kind \in { "FmtError", "EOF", "ErrUnexpectedEOF" }
                   /\ stream[r].pos \in 12..36
              /\ (RiffStageOk(src) /\ FmtStageOk(src) /\ ~DataStageOk(src)) =>
                   /\ rd.err.kind \in { "DataError", "EOF", "ErrUnexpectedEOF" }
                   /\ stream[r].pos \in 36..DataOffset

\* C12 witness: the stream of TestInvalidDataChunkNotEnoughData, a valid
\* RIFF header and fmt chunk and nothing more: no reader.
C12_Witness ==
    /\ reader[1].called
    /\ Len(SourceOf(1)) = 36
    /\ RiffStageOk(SourceOf(1)) /\ FmtStageOk(SourceOf(1))
    /\ ~reader[1].live
    /\ reader[1].err = EOF

\* C13: over a stream of at least 44 bytes NewWavReader succeeds exactly when
\* bytes 0-3 are "RIFF", 8-11 "WAVE", 12-15 "fmt " and 36-39 "data";
\* otherwise it fails with the error of the first tag that differs, which
\* carries the four bytes read.
C13_TagsDecideConstruction ==
    \A r \in Readers :
       (reader[r].called /\ Len(SourceOf(r)) >= DataOffset) =>
          LET src == SourceOf(r)
              rd == reader[r]
          IN  IF RiffTagOf(src) # TagRIFF
              THEN ~rd.live /\ rd.err = RiffErr(RiffTagOf(src))
              ELSE IF WaveTagOf(src) # TagWAVE
              THEN ~rd.live /\ rd.err = WaveErr(WaveTagOf(src))
              ELSE IF FmtTagOf(src) # TagFmt
              THEN ~rd.live /\ rd.err = FmtErr(FmtTagOf(src))
              ELSE IF DataTagOf(src) # TagData
              THEN ~rd.live /\ rd.err = DataErr(DataTagOf(src))
              ELSE rd.live /\ rd.err = NilErr

\* C13 witness: a full stream whose fmt tag differs in case only, and whose
\* data tag is wrong too, is refused with the fmt error carrying "FMT ".
C13_Witness ==
    /\ reader[1].called
    /\ Len(SourceOf(1)) >= DataOffset
    /\ RiffStageOk(SourceOf(1))
    /\ FmtTagOf(SourceOf(1)) = TagFmtUpper
    /\ DataTagOf(SourceOf(1)) = TagDat0
    /\ reader[1].err = FmtErr(TagFmtUpper)

\* The fields construction reads, as [from, to) byte ranges of the stream,
\* each with the tags that are checked before the field is read.
HeaderFields ==
    { [from |-> 0, to |-> 8, riff |-> FALSE, wave |-> FALSE, fmt |-> FALSE],
      [from |-> 8, to |-> 12, riff |-> TRUE, wave |-> FALSE, fmt |-> FALSE],
      [from |-> 12, to |-> 20, riff |-> TRUE, wave |-> TRUE, fmt |-> FALSE],
      [from |-> 20, to |-> 36, riff |-> TRUE, wave |-> TRUE, fmt |-> TRUE],
      [from |-> 36, to |-> 44, riff |-> TRUE, wave |-> TRUE, fmt |-> TRUE] }

\* The read of field fd is reached: the tags checked before it are right.
Reaches(src, fd) ==
    /\ fd.riff => RiffTagOf(src) = TagRIFF
    /\ fd.wave => WaveTagOf(src) = TagWAVE
    /\ fd.fmt => FmtTagOf(src) = TagFmt

Groups(bytes, numChannels, bytesPerSample) ==
    [c \in 1..numChannels |->
       [j \in 1..bytesPerSample |-> bytes[(c - 1) * bytesPerSample + j]]]

\* The sample bytes that follow the 44-byte header of reader r's stream.
DataLen(r) == Len(SourceOf(r)) - DataOffset

\* What GetSample returns at the end of the stream: no frame and io.EOF.
EndOfStreamResult == [some |-> FALSE, sample |-> <<>>, err |-> EOF]

\* C15: on a reader over a valid 44-byte header followed by exactly m whole
\* frames, GetSample calls 1..m succeed and return, in stream order, frames
\* of numChannels groups of bitsPerSample/8 bytes holding the next source
\* bytes unchanged; call m+1 returns no frame and io.EOF.
C15_WholeFramesThenEndOfStream ==
    \A r \in Readers :
       reader[r].live =>
          LET f == reader[r].Fmt
              k == FrameSize(f)
          IN  (k >= 1 /\ DataLen(r) % k = 0) =>
                 LET m == DataLen(r) \div k
                 IN  \A i \in 1..Len(calls[r]) :
                        /\ i <= m =>
                             calls[r][i] =
                               [some |-> TRUE,
                                sample |-> Groups(
                                   Slice(SourceOf(r),
                                         DataOffset + (i - 1) * k, k),
                                   f.NumChannels, f.BitsPerSample \div 8),
                                err |-> NilErr]
                        /\ i = m + 1 => calls[r][i] = EndOfStreamResult

\* C15 witness: TestValidData: two frames of 2 x 2 bytes, then io.EOF.
C15_Witness ==
    /\ reader[1].live
    /\ reader[1].Fmt = TestFmt
    /\ DataLen(1) = 8
    /\ Len(calls[1]) = 3
    /\ calls[1][1].sample = << <<123, 0>>, <<133, 255>> >>
    /\ calls[1][2].sample = << <<65, 1>>, <<191, 254>> >>
    /\ calls[1][3] = EndOfStreamResult

\* C16: when the stream ends part-way through a frame, the GetSample call
\* that meets the end returns exactly what it returns on a frame boundary:
\* no frame and the error value io.EOF.
C16_PartialFrameIsPlainEndOfStream ==
    \A r \in Readers :
       reader[r].live =>
          LET k == FrameSize(reader[r].Fmt)
          IN  (k >= 1 /\ DataLen(r) % k # 0) =>
                 \A i \in 1..Len(calls[r]) :
                    i = (DataLen(r) \div k) + 1 =>
                       calls[r][i] = EndOfStreamResult

\* C16 witness: one whole 4-byte frame and then one byte of the next: the
\* stream ends inside a channel group; the second call returns io.EOF.
C16_Witness ==
    /\ reader[1].live
    /\ reader[1].Fmt = TestFmt
    /\ DataLen(1) = 5
    /\ Len(calls[1]) = 2
    /\ calls[1][1].some
    /\ calls[1][2] = EndOfStreamResult
    /\ stream[1].pos = Len(SourceOf(1))

\* The frames the successful calls of a history returned, in call order.
RECURSIVE FramesReturned(_)
FramesReturned(history) ==
    IF history = <<>> THEN <<>>
    ELSE (IF Head(history).some THEN << Head(history).sample >> ELSE <<>>)
           \o FramesReturned(Tail(history))

\* C17: the reader's frame list only grows by appending; after any GetSample
\* calls it is the sequence of frames the successful calls returned, and a
\* call that returns an error (having consumed part of a frame or not)
\* leaves it unchanged.
C17_FrameListIsWhatWasReturned ==
    [][ \A r \in Readers :
          LET old == reader[r].Data.Samples
              new == reader'[r].Data.Samples
          IN  /\ new = FramesReturned(calls'[r])
              /\ IF calls'[r] = calls[r] THEN new = old
                 ELSE LET res == calls'[r][Len(calls'[r])]
                      IN  IF res.some THEN new = Append(old, res.sample)
                          ELSE new = old ]_vars

\* C17 witness: a call failed after consuming part of a frame, on a reader
\* whose list holds a frame.
C17_Witness ==
    /\ reader[1].live
    /\ Len(reader[1].Data.Samples) = 1
    /\ Len(calls[1]) = 2
    /\ ~calls[1][2].some
    /\ stream[1].pos
         > DataOffset + FrameSize(reader[1].Fmt)

\* A GetSample call on reader r has returned io.EOF.
ReachedEndOfStream(r) ==
    \E i \in 1..Len(calls[r]) : calls[r][i] = EndOfStreamResult

LiveWithNonEmptyFrames == reader[1].live /\ FrameSize(reader[1].Fmt) >= 1

\* C18 for descriptors whose frame has at least one byte.
C18_NonEmptyFramesReachEndOfStream ==
    LiveWithNonEmptyFrames ~> ReachedEndOfStream(1)

\* Every successful GetSample call consumes at least one byte of the stream.
C18_SuccessfulCallConsumes ==
    [][ \A r \in Readers :
          (calls'[r] # calls[r] /\ calls'[r][Len(calls'[r])].some) =>
             stream'[r].pos > stream[r].pos ]_vars

\* C19: a writer constructed with a descriptor d whose tag is "fmt " over a
\* large enough sink, and then a reader constructed over the sink's bytes:
\* the reader's construction succeeds and its descriptor equals d in every
\* field.
C19_FormatRoundTrip ==
    \A w \in Writers :
       reader[w].called =>
          /\ reader[w].live
          /\ reader[w].err = NilErr
          /\ reader[w].Fmt = writer[w].Fmt

\* C19 witness: the descriptor of extreme values, read back from the sink
\* of a second writer.
C19_Witness ==
    /\ reader[2].called
    /\ writer[2].Fmt = EdgeFmt
    /\ reader[2].Fmt.Size = 2147483647
    /\ reader[2].Fmt.ByteRate = 67305985

\* The result of a construction: reader or none, error, header chunks.
ConstructionResult(r) ==
    [live |-> reader[r].live, err |-> reader[r].err, Riff |-> reader[r].Riff,
     Fmt |-> reader[r].Fmt, Id |-> reader[r].Data.Id,
     Size |-> reader[r].Data.Size]

EndOfStreamFlavoured(err) ==
    \/ err \in { EOF, ErrUnexpectedEOF }
    \/ err.inner \in { "EOF", "unexpected EOF" }

\* The text of an error names the read of the first tag (the FourCC).
NamesFourCC(err) == err.kind = "ErrorReadingFourCC"

\* C21: when the source ends before the first 4-byte tag is complete (as in
\* "RIF"), reader construction returns no reader and an end-of-stream error
\* whose text identifies the FourCC/tag read as the failing step.
C21_ShortFirstTagNamesFourCC ==
    \A r \in Readers :
       (reader[r].called /\ Len(SourceOf(r)) < 4) =>
          /\ ~reader[r].live
          /\ EndOfStreamFlavoured(reader[r].err)
          /\ NamesFourCC(reader[r].err)

\* The first two parts of C21: no reader, and an end-of-stream error.
C21_ShortFirstTagIsEndOfStream ==
    \A r \in Readers :
       (reader[r].called /\ Len(SourceOf(r)) < 4) =>
          /\ ~reader[r].live
          /\ reader[r].err \in { EOF, ErrUnexpectedEOF }

\* Offset off, or the span of n bytes from offset off, lies inside one of
\* the three ranges an AddSample call with s data bytes before it and a frame
\* of k bytes may touch.
InAddRanges(off, n, s, k) ==
    \/ off >= DataOffset + s /\ off + n <= DataOffset + s + k
    \/ off >= RiffSizeOffset /\ off + n <= RiffSizeOffset + 4
    \/ off >= DataSizeOffset /\ off + n <= DataSizeOffset + 4

\* C22: AddSample changes only three sink ranges: [44+s, 44+s+k) for the new
\* frame (s the data size before the call, k the frame's bytes), [4, 8) and
\* [40, 44).  The tags at 0, 8, 12 and 36, the fmt chunk bytes [16, 36) and
\* the frame bytes [44, 44+s) are unchanged by every AddSample, successful
\* or not; every write the call issues lies inside one of the three ranges.
C22_AddSampleTouchesThreeRanges ==
    [][ IsAdd(lastOp') =>
          LET w == lastOp'.w
              s == Data(w).Size
              k == Counted(lastOp'.sample)
          IN  /\ Len(sink'[w]) = Len(sink[w])
              /\ \A i \in 1..Len(sink[w]) :
                    sink'[w][i] # sink[w][i] => InAddRanges(i - 1, 1, s, k)
              /\ \A i \in 1..Len(lastOp'.log) :
                    InAddRanges(lastOp'.log[i].off, Len(lastOp'.log[i].p), s, k)
              /\ \A v \in Writers \ {w} : sink'[v] = sink[v] ]_vars

\* A successful AddSample whose frame went behind earlier data bytes and
\* changed the sink there.
C22_Witness ==
    /\ IsAdd(lastOp)
    /\ lastOp.err = NoErr
    /\ lastOp.log[1].off > DataOffset
    /\ Slice(sink[lastOp.w], lastOp.log[1].off, Len(lastOp.log[1].p))
          = SampleBytes(lastOp.sample)

\* The offsets of the eight writes of construction, in the order claimed.
InitialOffsets == << 0, 4, 8, 12, 16, 20, 36, 40 >>

\* Offset off of a sink lies inside a write of the log that succeeded.
Covered(log, off) ==
    \E i \in 1..Len(log) :
       log[i].ok /\ off >= log[i].off /\ off < log[i].off + Len(log[i].p)

\* C23: writer construction issues its positioned writes strictly in the
\* order of offsets 0, 4, 8, 12, 16, 20, 36, 40 and stops at the first
\* failure: when the i-th write fails, the i-1 earlier writes remain in the
\* sink (no rollback) and none of the later writes is issued.
C23_ConstructionWritesInOrder ==
    IsNew(lastOp) =>
       LET log == lastOp.log
           n == Len(log)
       IN  /\ n \in 1..8
           /\ \A i \in 1..n : log[i].off = InitialOffsets[i]
           /\ \A i \in 1..(n - 1) : log[i].ok
           /\ n < 8 => ~log[n].ok
           /\ (lastOp.err = NoErr) <=> log[n].ok
           /\ \A i \in 1..n :
                 log[i].ok =>
                    Slice(lastOp.data, log[i].off, Len(log[i].p)) = log[i].p
           /\ \A off \in 0..(Len(lastOp.data) - 1) :
                 ~Covered(log, off) => lastOp.data[off + 1] = 0

\* Construction failed at its sixth write: the five writes before it are in
\* the sink, the data tag and data size were never written.
C23_Witness ==
    /\ IsNew(lastOp)
    /\ Len(lastOp.log) = 6
    /\ ~lastOp.log[6].ok
    /\ Slice(lastOp.data, 0, 4) = TagRIFF
    /\ Slice(lastOp.data, 12, 4) = TagFmt
    /\ Slice(lastOp.data, 36, 4) = << 0, 0, 0, 0 >>

\* The AddSample call of this step wrote its payload and then failed in one
\* of the two size-field writes.
SizeWriteFailed(op) ==
    /\ IsAdd(op)
    /\ Len(op.log) >= 2
    /\ op.log[1].ok
    /\ op.err # NoErr

\* After a size-field failure the counters stay incremented and the frame
\* stays in the list; after a success both size fields of the sink equal the
\* counters.
C24_CountersSurviveSizeFailure ==
    [][ IsAdd(lastOp') =>
          LET w == lastOp'.w
              k == Counted(lastOp'.sample)
          IN  /\ SizeWriteFailed(lastOp') =>
                    /\ lastOp'.err.kind = "WriteError"
                    /\ Riff(w)'.Size = Riff(w).Size + k
                    /\ Data(w)'.Size = Data(w).Size + k
                    /\ Data(w)'.Samples = Append(Data(w).Samples, lastOp'.sample)
              /\ lastOp'.err = NoErr =>
                    /\ RiffSizeField(sink'[w]) = Riff(w)'.Size
                    /\ DataSizeField(sink'[w]) = Data(w)'.Size ]_vars

\* C24: if the payload write of an AddSample succeeds but a size-field write
\* fails, the call returns the error while the counters stay incremented and
\* the frame stays in the frame list; the next successful AddSample on that
\* writer places its frame directly after the earlier one and patches both
\* size fields to the cumulative totals, so after any successful AddSample
\* the sink's two size fields equal the in-memory counters.
C24_NextFrameFollowsEarlierOne ==
    [][ IsAdd(lastOp') =>
          LET w == lastOp'.w
              k == Counted(lastOp'.sample)
          IN  /\ SizeWriteFailed(lastOp') =>
                    /\ lastOp'.err.kind = "WriteError"
                    /\ Riff(w)'.Size = Riff(w).Size + k
                    /\ Data(w)'.Size = Data(w).Size + k
                    /\ Data(w)'.Samples = Append(Data(w).Samples, lastOp'.sample)
              /\ lastOp'.err = NoErr =>
                    /\ lastOp'.log[1].off = DataOffset + audit[w].written
                    /\ RiffSizeField(sink'[w]) = Riff(w)'.Size
                    /\ DataSizeField(sink'[w]) = Data(w)'.Size
                    /\ DataSizeField(sink'[w]) = audit'[w].written ]_vars

\* The same with one writer in the process.
C24_NextFrameFollowsEarlierOneAlone ==
    [][ (IsAdd(lastOp') /\ SingleWriter /\ lastOp'.err = NoErr) =>
          /\ lastOp'.log[1].off = DataOffset + audit[1].written
          /\ DataSizeField(sink'[1]) = audit'[1].written ]_vars

\* A successful AddSample on a writer one of whose earlier calls failed in a
\* size-field write.
C24_Witness ==
    /\ IsAdd(lastOp)
    /\ lastOp.err = NoErr
    /\ audit[lastOp.w].ioFailed
    /\ audit[lastOp.w].written > Counted(lastOp.sample)

\* The sum of the byte lengths of a list of frames.
RECURSIVE FramesLen(_)
FramesLen(frames) ==
    IF frames = <<>> THEN 0
    ELSE Counted(Head(frames)) + FramesLen(Tail(frames))

\* The list and both counters move in one step with the payload write, and
\* the size fields are patched with the counters already incremented.
C25_ListAndCountersChangeTogether ==
    [][ IsAdd(lastOp') =>
          LET w == lastOp'.w
              k == Counted(lastOp'.sample)
              log == lastOp'.log
          IN  /\ FramesLen(Data(w)'.Samples) = Data(w)'.Size
              /\ Data(w)'.Size = Riff(w)'.Size - 36
              /\ IF log # <<>> /\ log[1].ok
                 THEN /\ Data(w)'.Samples
                            = Append(Data(w).Samples, lastOp'.sample)
                      /\ Data(w)'.Size = Data(w).Size + k
                      /\ Riff(w)'.Size = Riff(w).Size + k
                      /\ Len(log) >= 2
                      /\ log[2].off = RiffSizeOffset
                      /\ log[2].p = LE32(Riff(w)'.Size)
                      /\ Len(log) = 3 =>
                            /\ log[3].off = DataSizeOffset
                            /\ log[3].p = LE32(Data(w)'.Size)
                 ELSE /\ Data(w)' = Data(w)
                      /\ Riff(w)' = Riff(w) ]_vars

\* C25: the writer's accumulated frame list equals, in order, exactly the
\* frames whose payload write succeeded, and the sum of the byte lengths of
\* the listed frames equals the data size counter and equals the RIFF size
\* counter minus 36; the list and both counters change together, immediately
\* after a successful payload write and before the size fields are patched.
C25_FrameListIsTheWritersStoredFrames ==
    [][ /\ \A w \in Writers :
              writer'[w].live =>
                 /\ Data(w)'.Samples = audit'[w].stored
                 /\ FramesLen(Data(w)'.Samples) = Data(w)'.Size
                 /\ Data(w)'.Size = Riff(w)'.Size - 36
        /\ IsAdd(lastOp') =>
              LET w == lastOp'.w
                  k == Counted(lastOp'.sample)
                  log == lastOp'.log
              IN  IF log # <<>> /\ log[1].ok
                  THEN /\ Data(w)'.Samples
                             = Append(Data(w).Samples, lastOp'.sample)
                       /\ Data(w)'.Size = Data(w).Size + k
                       /\ Riff(w)'.Size = Riff(w).Size + k
                       /\ Len(log) >= 2
                       /\ log[2].p = LE32(Riff(w)'.Size)
                  ELSE /\ Data(w)' = Data(w)
                       /\ Riff(w)' = Riff(w) ]_vars

\* The same list claim with one writer in the process.
C25_FrameListIsTheStoredFramesAlone ==
    SingleWriter => Data(1).Samples = audit[1].stored

\* A writer whose list holds a frame of a call that failed after its payload
\* write.
C25_Witness ==
    /\ SingleWriter
    /\ IsAdd(lastOp)
    /\ SizeWriteFailed(lastOp)
    /\ Data(1).Samples = audit[1].stored
    /\ audit[1].stored # audit[1].added

\* A frame with f.NumChannels groups of f.BitsPerSample/8 bytes each.
WellFormed(f, sample) ==
    /\ Len(sample) = f.NumChannels
    /\ \A i \in 1..Len(sample) : Len(sample[i]) = f.BitsPerSample \div 8

\* The AddSample call of this step wrote its frame and appended it.
Accepted(op) == IsAdd(op) /\ op.log # <<>> /\ op.log[1].ok

\* C26: every frame that AddSample accepts (writes and appends to the frame
\* list) has exactly numChannels channel groups and each group is exactly
\* bitsPerSample/8 bytes long.
C26_AcceptedFramesAreWellFormed ==
    /\ Accepted(lastOp) => WellFormed(writer[lastOp.w].Fmt, lastOp.sample)
    /\ \A w \in Writers :
          writer[w].live =>
             \A i \in 1..Len(Data(w).Samples) :
                WellFormed(writer[w].Fmt, Data(w).Samples[i])

\* What the code does enforce: the number of groups, and the total byte
\* count as the code computes it.
C26_AcceptedFramesHaveTheTotal ==
    Accepted(lastOp) =>
       /\ Len(lastOp.sample) = writer[lastOp.w].Fmt.NumChannels
       /\ Counted(lastOp.sample) = ExpectedBytes(writer[lastOp.w].Fmt)

\* C27: for every descriptor with 16-bit numChannels and bitsPerSample,
\* AddSample accepts a frame with numChannels groups exactly when its total
\* byte count equals the mathematical product (bitsPerSample div 8) *
\* numChannels, and the expected count reported in SampleError is that
\* product (no truncation of the product to 16 bits).
C27_ByteCountIsTheProduct ==
    (IsAdd(lastOp) /\ Len(lastOp.sample) = writer[lastOp.w].Fmt.NumChannels) =>
       LET f == writer[lastOp.w].Fmt
       IN  /\ (lastOp.err.kind # "SampleError")
                 <=> (Counted(lastOp.sample) = FrameSize(f))
           /\ lastOp.err.kind = "SampleError" => lastOp.err.a = FrameSize(f)

\* The same for descriptors whose product fits 16 bits.
C27_ByteCountIsTheProductBelow65536 ==
    (/\ IsAdd(lastOp)
     /\ Len(lastOp.sample) = writer[lastOp.w].Fmt.NumChannels
     /\ FrameSize(writer[lastOp.w].Fmt) < U16) =>
       LET f == writer[lastOp.w].Fmt
       IN  /\ (lastOp.err.kind # "SampleError")
                 <=> (Counted(lastOp.sample) = FrameSize(f))
           /\ lastOp.err.kind = "SampleError" => lastOp.err.a = FrameSize(f)

\* The 44 bytes before the frames have the canonical layout around the
\* payload of descriptor f.
CanonicalPrefix(data, f) ==
    /\ Len(data) >= DataOffset
    /\ Slice(data, 0, 4) = TagRIFF
    /\ Slice(data, 8, 4) = TagWAVE
    /\ Slice(data, 12, 4) = TagFmt
    /\ ReadLE32(Slice(data, 16, 4)) = 16
    /\ Slice(data, 20, 16) = FmtPayload(f)
    /\ Slice(data, 36, 4) = TagData

\* C28: for any format descriptor supplied to NewWavWriter, the constructed
\* container has the canonical 44-byte prefix: bytes 12-15 are "fmt ", the
\* fmt size field at offset 16 is 16, exactly 16 payload bytes occupy
\* [20, 36), "data" is at offset 36 and frames start at 44.
C28_PrefixIsCanonical ==
    (IsNew(lastOp) /\ lastOp.err = NoErr) =>
       CanonicalPrefix(lastOp.data, FmtOfArg(lastOp.fmtArg))

\* The same for the descriptors whose header already says "fmt " and 16.
C28_PrefixIsCanonicalForCanonicalHeaders ==
    (/\ IsNew(lastOp)
     /\ lastOp.err = NoErr
     /\ FmtOfArg(lastOp.fmtArg).Id = FmtId
     /\ FmtOfArg(lastOp.fmtArg).Size = 16) =>
       CanonicalPrefix(lastOp.data, FmtOfArg(lastOp.fmtArg))

\* C29: reader construction consumes exactly the first 44 source bytes
\* (always 16 fmt payload bytes, whatever length the fmt header declares, and
\* no data payload bytes), and GetSample is bounded only by source
\* exhaustion, not by any declared length: with a data chunk declaring
\* length 0, frames present after the header are still returned, the first
\* one starting at byte 44.
C29_ConstructionConsumesTheHeaderOnly ==
    \A r \in Readers :
       reader[r].called =>
          LET src == SourceOf(r)
              rd == reader[r]
              k == FrameSize(rd.Fmt)
          IN  /\ (RiffStageOk(src) /\ FmtStageOk(src) /\ DataStageOk(src))
                    => rd.live
              /\ rd.live =>
                    /\ calls[r] = <<>> => stream[r].pos = DataOffset
                    /\ rd.Fmt.Size = ReadLE32(Slice(src, 16, 4))
                    /\ FmtPayload(rd.Fmt) = Slice(src, 20, 16)
                    /\ rd.Data.Size = ReadLE32(Slice(src, DataSizeOffset, 4))
                    /\ \A i \in 1..Len(calls[r]) :
                          (k >= 1 /\ i * k <= DataLen(r)) =>
                             /\ calls[r][i].some
                             /\ SampleBytes(calls[r][i].sample)
                                  = Slice(src, DataOffset + (i - 1) * k, k)

\* C29 witness: a header declaring 789 fmt bytes and 0 data bytes; the first
\* GetSample returns the frame held in bytes 44..47.
C29_Witness ==
    /\ reader[1].live
    /\ reader[1].Fmt.Size = 789
    /\ reader[1].Data.Size = 0
    /\ Len(calls[1]) = 1
    /\ calls[1][1].some
    /\ calls[1][1].sample = << <<123, 0>>, <<133, 255>> >>
    /\ stream[1].pos = DataOffset + 4

\* C30: once GetSample has returned end-of-stream on a source that stays
\* exhausted, every later GetSample call also returns end-of-stream with no
\* frame, and the reader's parsed RIFF, fmt and data headers and its
\* accumulated frame list never change again.
C30_EndOfStreamIsFinal ==
    [][ \A r \in Readers :
          (ReachedEndOfStream(r) /\ calls'[r] # calls[r]) =>
             /\ calls'[r][Len(calls'[r])] = EndOfStreamResult
             /\ reader'[r] = reader[r]
             /\ stream'[r] = stream[r] ]_vars

\* C30 witness: a frame, then two calls at the end of the stream.
C30_Witness ==
    /\ reader[1].live
    /\ Len(calls[1]) = 3
    /\ calls[1][1].some
    /\ calls[1][2] = EndOfStreamResult
    /\ calls[1][3] = EndOfStreamResult
    /\ reader[1].Data.Samples = << calls[1][1].sample >>

\* Reader w stands over the container of writer w as it is now: the sink's
\* first 44 + (bytes of the frames added) bytes, every added frame having
\* groups of bitsPerSample/8 bytes, every stored frame added successfully.
ReadsItsContainer(w) ==
    /\ writer[w].live
    /\ reader[w].called
    /\ audit[w].stored = audit[w].added
    /\ \A i \in 1..Len(audit[w].added) :
          WellFormed(writer[w].Fmt, audit[w].added[i])
    /\ SourceOf(w)
         = Prefix(sink[w], DataOffset + PayloadLen(audit[w].added))

\* What the round trip promises of reader w.
ContainerReadBack(w) ==
    LET frames == audit[w].added
        n == Len(frames)
        total == PayloadLen(frames)
    IN  /\ reader[w].live
        /\ reader[w].Riff.Size = 36 + total
        /\ reader[w].Data.Size = total
        /\ \A i \in 1..Len(calls[w]) :
              calls[w][i] = IF i <= n
                            THEN [some |-> TRUE, sample |-> frames[i],
                                  err |-> NilErr]
                            ELSE EndOfStreamResult

\* C31: container round-trip.  For a fresh writer with descriptor d (tag
\* "fmt ", bitsPerSample a positive multiple of 8, numChannels >= 1) and
\* frames f1..fn each successfully added with every channel group
\* bitsPerSample/8 bytes long, a reader over the sink's first 44 + (total
\* frame bytes) bytes constructs successfully, reports RIFF size 36 + total
\* frame bytes and data size equal to total frame bytes, and its GetSample
\* calls return f1..fn in order followed by end-of-stream.
C31_ContainerRoundTrip ==
    \A w \in Writers : ReadsItsContainer(w) => ContainerReadBack(w)

\* The same when the writer is the only one the process has made.
C31_ContainerRoundTripAlone ==
    (SingleWriter /\ ReadsItsContainer(1)) => ContainerReadBack(1)

\* The only writer of the process added two frames; the reader over its
\* container returned both and then io.EOF.
C31_Witness ==
    /\ SingleWriter
    /\ ReadsItsContainer(1)
    /\ audit[1].added = << SampleA, SampleB >>
    /\ Len(calls[1]) = 3
    /\ calls[1][2].sample = SampleB
    /\ calls[1][3] = EndOfStreamResult

\* The text of the stream error met by a read that starts at offset start of
\* a stream too short for it: "EOF" when no byte is left, else
\* "unexpected EOF".
CauseAt(src, start) == IF Len(src) <= start THEN "EOF" ELSE "unexpected EOF"

\* C32: in the legacy reader (src/wav.go), NewWavReader returns no reader and
\* reports the failing stage: a short read of the first tag, of the size or
\* of the format field yields an error naming FourCC, Size or Format
\* respectively; a first tag other than "RIFF" yields RiffError and a format
\* other than "WAVE" yields WaveError, each carrying the four bytes read; any
\* failure reading the next sub-chunk header or the 16-byte format payload
\* yields an error of the form "Invalid format chunk: <cause>".
C32_LegacyReaderReportsTheStage ==
    \A r \in Readers :
       reader[r].called =>
          LET src == SourceOf(r)
              rd == reader[r]
              n == Len(src)
          IN  /\ rd.live <=> rd.err = NilErr
              /\ rd.err =
                   IF n < 4
                   THEN [kind |-> "ErrorReadingFourCC", text |-> <<>>,
                         inner |-> CauseAt(src, 0)]
                   ELSE IF RiffTagOf(src) # TagRIFF
                   THEN [kind |-> "RiffError", text |-> RiffTagOf(src),
                         inner |-> ""]
                   ELSE IF n < 8
                   THEN [kind |-> "ErrorReadingSize", text |-> <<>>,
                         inner |-> CauseAt(src, 4)]
                   ELSE IF n < 12
                   THEN [kind |-> "ErrorReadingFormat", text |-> <<>>,
                         inner |-> CauseAt(src, 8)]
                   ELSE IF WaveTagOf(src) # TagWAVE
                   THEN [kind |-> "WaveError", text |-> WaveTagOf(src),
                         inner |-> ""]
                   ELSE IF n < 36
                   THEN [kind |-> "FormatChunkError", text |-> <<>>,
                         inner |-> CauseAt(src, IF n < 16 THEN 12
                                                ELSE IF n < 20 THEN 16
                                                ELSE 20)]
                   ELSE NilErr

\* C32 witness: TestInvalidFormatChunk: RIFF, size, WAVE and four more
\* bytes; the size of the sub-chunk is missing.
C32_Witness ==
    /\ reader[1].called
    /\ Len(SourceOf(1)) = 16
    /\ ~reader[1].live
    /\ reader[1].err.kind = "FormatChunkError"
    /\ reader[1].err.inner = "EOF"

(* -------------------------- midi properties --------------------------- *)
\* The number of bytes from the start of the last read up to and including
\* the first byte below 128, or 0 when there is none.
FirstLast(src, start) ==
    LET js == { j \in 1..(Len(src) - start) : src[start + j] < 128 }
    IN  IF js = {} THEN 0 ELSE CHOOSE j \in js : \A i \in js : j <= i

\* A sequence of base-128 digits without its leading zeros.
RECURSIVE StripZeros(_)
StripZeros(d) ==
    IF d # <<>> /\ Head(d) = 0 THEN StripZeros(Tail(d)) ELSE d

\* The big-endian base-128 value of the low 7 bits of n bytes from start.
Base128(src, start, n) == StripZeros([i \in 1..n |-> src[start + i] % 128])

\* The number a short sequence of base-128 digits stands for.
RECURSIVE ToInt(_)
ToInt(d) == IF d = <<>> THEN 0 ELSE 128 * ToInt(SubSeq(d, 1, Len(d) - 1)) + d[Len(d)]

\* The smaller of two numbers.
Min(a, b) == IF a < b THEN a ELSE b

\* The values TestVariableLengthQuantity expects.
C33_TestValues ==
    (midi.reads = 1 /\ midi.src \in VlqTests) =>
       /\ midi.pos = Len(midi.src)
       /\ ToInt(midi.value) =
            CASE midi.src = << 127 >> -> 127
              [] midi.src = << 129, 72 >> -> 200
              [] midi.src = << 255, 255, 127 >> -> 2097151
              [] midi.src = << 129, 128, 128, 0 >> -> 2097152
              [] midi.src = << 192, 128, 128, 0 >> -> 134217728

\* C33: ReadVariableLengthQuantity returns the big-endian base-128 value of
\* the input bytes up to and including the first byte whose most significant
\* bit is clear (each byte contributing its low 7 bits) and consumes exactly
\* those bytes; it consumes at most 8 bytes even when every byte has the
\* continuation bit set, and when the input ends before a terminating byte
\* it returns the value accumulated so far without signalling an error.
C33_VlqValueAndConsumption ==
    midi.reads >= 1 =>
       LET src == midi.src
           start == midi.start
           avail == Len(src) - start
           j == FirstLast(src, start)
       IN  /\ j \in 1..VlqMaxBytes =>
                 /\ midi.value = Base128(src, start, j)
                 /\ midi.pos = start + j
           /\ midi.pos - start <= VlqMaxBytes
           /\ j \notin 1..VlqMaxBytes =>
                 midi.value = Base128(src, start, Min(avail, VlqMaxBytes))
           /\ (j = 0 /\ avail <= VlqMaxBytes) => midi.pos = Len(src)

\* What the code does: the same, except that after eight bytes with the
\* continuation bit set a ninth byte is consumed when there is one, and
\* does not count in the value.
C33_VlqConsumesUpToNine ==
    midi.reads >= 1 =>
       LET src == midi.src
           start == midi.start
           avail == Len(src) - start
           j == FirstLast(src, start)
       IN  /\ j \in 1..VlqMaxBytes =>
                 /\ midi.value = Base128(src, start, j)
                 /\ midi.pos = start + j
           /\ j \notin 1..VlqMaxBytes =>
                 /\ midi.value = Base128(src, start, Min(avail, VlqMaxBytes))
                 /\ midi.pos = start + Min(avail, VlqMaxBytes + 1)

\* The big-endian length field of a chunk header of at least 8 bytes.
LengthField(data) ==
    16777216 * data[5] + 65536 * data[6] + 256 * data[7] + data[8]

\* C34: Midi.UnmarshalBinary returns an end-of-stream error when the input
\* is shorter than the 8-byte chunk header or shorter than the three 16-bit
\* words that follow it, returns HeaderSizeError carrying the found length
\* when the big-endian length field is not 16, and in every error case
\* leaves the receiver's HeaderChunk unset (as it was); it sets HeaderChunk
\* only when header and all three words were read.
C34_UnmarshalBinaryErrors ==
    [][ (midi'.called /\ midi' # midi) =>
          LET data == midi'.data
              n == Len(data)
          IN  /\ midi'.err =
                   IF n < 8
                   THEN (IF n = 0 THEN EOF ELSE ErrUnexpectedEOF)
                   ELSE IF LengthField(data) # 16
                   THEN [kind |-> "HeaderSizeError",
                         text |-> << LengthField(data) >>, inner |-> ""]
                   ELSE IF n < 14
                   THEN (IF n % 2 = 0 THEN EOF ELSE ErrUnexpectedEOF)
                   ELSE NilErr
              /\ midi'.err # NilErr =>
                    /\ midi'.hc = midi.hc
                    /\ ~midi.called => ~midi'.hc.set
              /\ midi'.err = NilErr =>
                    midi'.hc = [set |-> TRUE, Type |-> Slice(data, 0, 4),
                                Length |-> 16,
                                Format |-> 256 * data[9] + data[10],
                                Ntrks |-> 256 * data[11] + data[12],
                                Division |-> 256 * data[13] + data[14]] ]_vars

\* C34 witness: TestMidiHeaderChunkTooSmall: "MThd", length 16 and nothing
\* more, on a new Midi: io.EOF and no HeaderChunk.
C34_Witness ==
    /\ midi.called
    /\ midi.data = TagMThd \o << 0, 0, 0, 16 >>
    /\ midi.err = EOF
    /\ ~midi.hc.set

====
